---- MODULE Spec2Model ----
(***************************************************************************)
(* Permission resolution of the defidisco discovery UI: the traversal      *)
(* backend (permissionResolution.ts) with the owner and delay resolvers    *)
(* of functions.ts.  One run of resolvePermissionsForProject is modelled   *)
(* as a state machine whose call stack is the recursion of traceOwnerPath. *)
(***************************************************************************)
EXTENDS Integers, Sequences, FiniteSets, TLC

VARIABLES
  file,              \* discovered.json on disk: [status, entries]
  overrides,         \* permission-overrides.json on disk: [exists, contracts]
  discovered,        \* the snapshot parsed by resolvePermissionsForProject
  graph,             \* OwnershipGraph built by buildOwnershipGraph
  pc,                \* position of resolvePermissionsForProject
  ci,                \* index of the contract of the outer loop
  fi,                \* index of the function of the inner loop
  directOwners,      \* directOwners of the current function
  di,                \* index of the direct owner being traced
  ultimateOwners,    \* ultimateOwners collected for the current function
  warnings,          \* warnings collected for the current function
  stack,             \* activation records of traceOwnerPath, innermost last
  ret,               \* the TraceResult returned by the latest finished call
  resolvedFunctions, \* resolvedFunctions of the current contract
  resolvedContracts, \* resolvedContracts, in insertion order
  mtime,  \* modification time of discovered.json
  discoveredFunctionsCache,  \* the cache entry of loadDiscoveredFunctions for discovered.json
  console, \* messages written to the console, oldest first
  functionsFile,  \* functions.json, the store of the user's function entries
  now  \* the clock that new Date() reads

vars == <<file, overrides, discovered, graph, pc, ci, fi, directOwners, di,
          ultimateOwners, warnings, stack, ret, resolvedFunctions,
          resolvedContracts,
          mtime, discoveredFunctionsCache, console,
          functionsFile, now>>

----------------------------------------------------------------------------
(* Bounds of the model *)

MaxOwnerDefs == 2
MaxArrayLen == 2
MaxStack == 6
\* latest modification time of discovered.json, and console messages kept
MaxMtime == 2
MaxLog == 4
\* time of the last updateFunction call
MaxClock == 3
\* ultimatePermission facts in the solver's answer
MaxFacts == 3
\* days in the delays formatDelay is called on
MaxDays == 3

----------------------------------------------------------------------------
(* Generic helpers *)

None == <<>>
Some(x) == <<x>>
IsSome(o) == Len(o) > 0
Get(o) == o[1]

Max(a, b) == IF a >= b THEN a ELSE b

\* Body applied to the value of v: a LET whose definition is evaluated once
Bind(v, Body(_)) == CHOOSE r \in {Body(x) : x \in {v}} : TRUE

SeqsUpTo(S, n) == UNION {[1..k -> S] : k \in 0..n}

RECURSIVE Flatten(_)
Flatten(ss) == IF ss = <<>> THEN <<>> ELSE Head(ss) \o Flatten(Tail(ss))

Range(s) == {s[i] : i \in 1..Len(s)}

\* Array.prototype.findIndex: first index satisfying the test, 0 for -1
FindIndex(s, Test(_)) ==
  IF \E i \in 1..Len(s) : Test(s[i])
  THEN CHOOSE i \in 1..Len(s) : Test(s[i]) /\ \A j \in 1..(i-1) : ~Test(s[j])
  ELSE 0

----------------------------------------------------------------------------
(* Addresses, address types and field values *)

AddrA == "eth:0xA"
AddrB == "eth:0xB"
AddrT == "eth:0xT"
AddrM == "eth:0xM"
AddrX == "eth:0xX"
\* AddrA and AddrB with the hex letter in lower case
AddrALower == "eth:0xa"
AddrBLower == "eth:0xb"

ApiAddressType == {"EOA", "EOAPermissioned", "Unverified", "Token", "Multisig",
                   "Diamond", "Timelock", "Contract", "Unknown"}

AddressFieldValue(a, t) ==
  [type |-> "address", address |-> a, addressType |-> t, value |-> <<>>, values |-> <<>>]
ArrayFieldValue(vs) ==
  [type |-> "array", address |-> "", addressType |-> "", value |-> <<>>, values |-> vs]
NumberFieldValue(s) ==
  [type |-> "number", address |-> "", addressType |-> "", value |-> s, values |-> <<>>]
StringFieldValue(s) ==
  [type |-> "string", address |-> "", addressType |-> "", value |-> s, values |-> <<>>]

Field(n, v) == [name |-> n, value |-> v]
DiscoveredEntry(a, t, fs) == [address |-> a, type |-> t, fields |-> fs]

PermissionType ==
  {"member", "act", "admin", "interact", "upgrade", "challenge", "guard", "propose",
   "sequence", "validate", "disperse", "relayDA", "operateLinea", "fastconfirm",
   "configure", "whitelist"}

\* an owner definition without permissionType, and one with it
OwnerDefinition(p) == [path |-> p, permissionType |-> <<>>]
TypedOwnerDefinition(p, t) == [path |-> p, permissionType |-> <<t>>]
DelayRef(c, f) == [contractAddress |-> c, fieldName |-> f]
PermissionOverride(n, c, defs, d) ==
  [functionName |-> n, userClassification |-> c, ownerDefinitions |-> defs, delay |-> d]
ContractPermissions(a, fs) == [address |-> a, functions |-> fs]

\* a path expression <contractRef>.<valuePath>, already split at the dots
Path(root, segs) == [root |-> root, segments |-> segs]
SelfOwner == Path("$self", <<"owner">>)
SelfNonexistent == Path("$self", <<"nonexistent">>)

----------------------------------------------------------------------------
(* parseInt(text, 10) on a string given as its sequence of characters *)

Digits == <<"0", "1", "2", "3", "4", "5", "6", "7", "8", "9">>
IsDigit(c) == \E d \in 1..10 : Digits[d] = c
DigitValue(c) == (CHOOSE d \in 1..10 : Digits[d] = c) - 1

RECURSIVE ParseDigits(_, _, _)
ParseDigits(s, acc, seen) ==
  IF s # <<>> /\ IsDigit(Head(s))
  THEN ParseDigits(Tail(s), acc * 10 + DigitValue(Head(s)), TRUE)
  ELSE IF seen THEN Some(acc) ELSE None

RECURSIVE SkipSpace(_)
SkipSpace(s) == IF s # <<>> /\ Head(s) = " " THEN SkipSpace(Tail(s)) ELSE s

\* None stands for NaN
parseInt(text) ==
  Bind(SkipSpace(text), LAMBDA s :
    IF s # <<>> /\ Head(s) = "-"
    THEN Bind(ParseDigits(Tail(s), 0, FALSE), LAMBDA m :
           IF IsSome(m) THEN Some(0 - Get(m)) ELSE None)
    ELSE IF s # <<>> /\ Head(s) = "+" THEN ParseDigits(Tail(s), 0, FALSE)
    ELSE ParseDigits(s, 0, FALSE))

----------------------------------------------------------------------------
(* formatDelay *)

\* the hours are not reduced modulo the day
formatDelayWholeHours(seconds) ==
  IF seconds = 0 THEN << <<0, "s">> >>
  ELSE LET days == seconds \div 86400
           hours == seconds \div 3600
           minutes == (seconds % 3600) \div 60
           secs == seconds % 60
       IN (IF days > 0 THEN << <<days, "d">> >> ELSE <<>>)
          \o (IF hours > 0 THEN << <<hours, "h">> >> ELSE <<>>)
          \o (IF minutes > 0 THEN << <<minutes, "m">> >> ELSE <<>>)
          \o (IF secs > 0 THEN << <<secs, "s">> >> ELSE <<>>)

\* the text is its components in order, each a number and its unit
formatDelay(seconds) ==
  IF seconds = 0 THEN << <<0, "s">> >>
  ELSE LET days == seconds \div 86400
           hours == (seconds % 86400) \div 3600
           minutes == (seconds % 3600) \div 60
           secs == seconds % 60
       IN (IF days > 0 THEN << <<days, "d">> >> ELSE <<>>)
          \o (IF hours > 0 THEN << <<hours, "h">> >> ELSE <<>>)
          \o (IF minutes > 0 THEN << <<minutes, "m">> >> ELSE <<>>)
          \o (IF secs > 0 THEN << <<secs, "s">> >> ELSE <<>>)

----------------------------------------------------------------------------
(* Path Evaluator: resolvePathExpression of ownerResolution.ts *)

FindEntry(entries, address) ==
  FindIndex(entries, LAMBDA e : e.address = address)

RECURSIVE AddressLeaves(_)
AddressLeaves(vs) ==
  IF vs = <<>> THEN <<>>
  ELSE (IF Head(vs).type = "address" THEN <<Head(vs).address>> ELSE <<>>)
       \o AddressLeaves(Tail(vs))

PathResult(addrs, sv, err) ==
  [addresses |-> addrs, structuredValue |-> sv, error |-> err]

PathValue(v) ==
  CASE v.type = "address" -> PathResult(<<v.address>>, "string", None)
    [] v.type = "array" -> PathResult(AddressLeaves(v.values), "array", None)
    [] OTHER -> PathResult(<<>>, v.type, None)

PathField(fs, name) ==
  Bind(FindIndex(fs, LAMBDA x : x.name = name), LAMBDA f :
    IF f = 0 THEN PathResult(<<>>, "undefined", Some("UnknownField"))
    ELSE Bind(fs[f].value, PathValue))

PathFrom(entries, target, segments) ==
  Bind(FindEntry(entries, target), LAMBDA e :
    IF e = 0 THEN PathResult(<<>>, "undefined", Some("UnknownContract"))
    ELSE IF segments = <<>> THEN PathResult(<<target>>, "undefined", None)
    ELSE PathField(entries[e].fields, segments[1]))

resolvePathExpression(entries, contractAddress, path) ==
  PathFrom(entries, IF path.root = "$self" THEN contractAddress ELSE path.root,
           path.segments)

----------------------------------------------------------------------------
(* Owner Resolver and Delay Resolver: functions.ts *)

ResolvedOwner(a, src, ok, err, sv) ==
  [address |-> a, source |-> src, isResolved |-> ok, error |-> err, structuredValue |-> sv]

\* lines 313-337: the records one definition contributes
ResolveDefinition(definition, result) ==
  IF IsSome(result.error)
  THEN <<ResolvedOwner("RESOLUTION_FAILED", definition, FALSE, result.error, "undefined")>>
  ELSE IF Len(result.addresses) = 1 /\ result.structuredValue = "string"
  THEN <<ResolvedOwner(result.addresses[1], definition, TRUE, None, "undefined")>>
  ELSE [k \in 1..Len(result.addresses) |->
          ResolvedOwner(result.addresses[k], definition, TRUE, None, result.structuredValue)]

ResolveDefinitions(entries, contractAddress, defs) ==
  Flatten([k \in 1..Len(defs) |->
     Bind(resolvePathExpression(entries, contractAddress, defs[k].path),
          LAMBDA result : ResolveDefinition(defs[k], result))])

resolveOwnersFromDiscovered(f, contractAddress, ownerDefinitions) ==
  IF f.status = "missing"
  THEN [k \in 1..Len(ownerDefinitions) |->
          ResolvedOwner("DISCOVERY_NOT_FOUND", ownerDefinitions[k], FALSE,
                        Some("No discovered.json file found for project"), "undefined")]
  ELSE IF f.status = "malformed"
  THEN [k \in 1..Len(ownerDefinitions) |->
          ResolvedOwner("PARSE_ERROR", ownerDefinitions[k], FALSE,
                        Some("Failed to parse discovered.json"), "undefined")]
  ELSE ResolveDefinitions(f.entries, contractAddress, ownerDefinitions)

ResolvedDelay(s, ok) == [seconds |-> s, isResolved |-> ok]

DelayOfField(value) ==
  IF value.type = "number"
  THEN Bind(parseInt(value.value), LAMBDA numValue :
         IF numValue = None THEN ResolvedDelay(0, FALSE)
         ELSE ResolvedDelay(Get(numValue), TRUE))
  ELSE ResolvedDelay(0, FALSE)

DelayOfEntry(fs, fieldName) ==
  Bind(FindIndex(fs, LAMBDA x : x.name = fieldName), LAMBDA k :
    IF k = 0 THEN ResolvedDelay(0, FALSE) ELSE Bind(fs[k].value, DelayOfField))

resolveDelayFromDiscovered(f, delayRef) ==
  IF f.status # "ok" THEN ResolvedDelay(0, FALSE)
  ELSE Bind(FindIndex(f.entries, LAMBDA x :
               x.type = "Contract" /\ x.address = delayRef.contractAddress),
            LAMBDA e : IF e = 0 THEN ResolvedDelay(0, FALSE)
                       ELSE Bind(f.entries[e].fields,
                                 LAMBDA fs : DelayOfEntry(fs, delayRef.fieldName)))

----------------------------------------------------------------------------
(* permissionResolution.ts: the pure parts *)

\* an address without entry is taken for a contract
getAddressTypeDefaultContract(address, entries) ==
  LET e == FindEntry(entries, address) IN
  IF e = 0 THEN "Contract" ELSE entries[e].type

getAddressType(address, entries) ==
  LET e == FindEntry(entries, address) IN
  IF e = 0 THEN "Unknown" ELSE entries[e].type

\* every contract type stops the resolution
isTerminalAddressContract(addressType) ==
  addressType = "EOA" \/ addressType = "Multisig" \/ addressType = "Unknown"
    \/ addressType = "Contract"

\* a Multisig is traced through like a contract
isTerminalAddressNoMultisig(addressType) ==
  addressType = "EOA" \/ addressType = "Unknown"

isTerminalAddress(addressType) ==
  addressType = "EOA" \/ addressType = "Multisig" \/ addressType = "Unknown"

\* obj[key] = value on an object kept as its sequence of entries
ObjSet(obj, key, value) ==
  LET k == FindIndex(obj, LAMBDA x : x.functionName = key) IN
  IF k = 0 THEN Append(obj, value) ELSE [obj EXCEPT ![k] = value]

RECURSIVE FunctionOwners(_)
FunctionOwners(funcs) ==
  IF funcs = <<>> THEN <<>>
  ELSE LET func == funcs[Len(funcs)]
           rest == FunctionOwners(SubSeq(funcs, 1, Len(funcs) - 1))
       IN IF func.userClassification = "permissioned" /\ IsSome(func.ownerDefinitions)
          THEN ObjSet(rest, func.functionName,
                      [functionName |-> func.functionName,
                       ownerDefinitions |-> Get(func.ownerDefinitions),
                       delay |-> func.delay])
          ELSE rest

buildOwnershipGraph(contracts) ==
  [k \in 1..Len(contracts) |->
     [address |-> contracts[k].address,
      functionOwners |-> FunctionOwners(contracts[k].functions)]]

GraphEntry(g, address) == FindIndex(g, LAMBDA x : x.address = address)

OwnerAddresses(kept) == [k \in 1..Len(kept) |-> kept[k].address]

\* the failed definitions are not filtered out
resolveOwnerDefinitionsToAddressesUnfiltered(f, contractAddress, ownerDefinitions) ==
  OwnerAddresses(resolveOwnersFromDiscovered(f, contractAddress, ownerDefinitions))

resolveOwnerDefinitionsToAddresses(f, contractAddress, ownerDefinitions) ==
  Bind(resolveOwnersFromDiscovered(f, contractAddress, ownerDefinitions),
       LAMBDA resolvedOwners :
         Bind(SelectSeq(resolvedOwners, LAMBDA owner : owner.isResolved), OwnerAddresses))

RECURSIVE Join(_, _)
Join(parts, sep) ==
  IF parts = <<>> THEN <<>>
  ELSE IF Len(parts) = 1 THEN parts
  ELSE <<Head(parts), sep>> \o Join(Tail(parts), sep)

ViaAddresses(via) == [k \in 1..Len(via) |-> via[k].address]

ViaStep(a, t, stepDelay) ==
  [address |-> a, addressType |-> t,
   delay |-> IF stepDelay > 0 THEN Some(stepDelay) ELSE None,
   delayFormatted |-> IF stepDelay > 0 THEN Some(formatDelay(stepDelay)) ELSE None]

TraceResult(uos, ws) == [ultimateOwners |-> uos, warnings |-> ws]

TraceOwner(a, t, via, delays) ==
  [address |-> a, addressType |-> t, via |-> via, delays |-> delays]

\* the cycle is dropped without a warning
CycleResultSilent(currentAddress, viaPath) == TraceResult(<<>>, <<>>)

\* the repeated address is not put at the end of the cycle path
CycleResultOpenPath(currentAddress, viaPath) ==
  TraceResult(<<>>,
    << <<"Cycle detected: ">> \o
       Join(ViaAddresses(SubSeq(viaPath,
                                FindIndex(viaPath, LAMBDA step : step.address = currentAddress),
                                Len(viaPath))), " → ") >>)

\* lines 155-166: the result of a call that finds currentAddress in visited
CycleResult(currentAddress, viaPath) ==
  LET cycleStartIndex == FindIndex(viaPath, LAMBDA step : step.address = currentAddress)
      cyclePath ==
        IF cycleStartIndex > 0
        THEN Join(ViaAddresses(SubSeq(viaPath, cycleStartIndex, Len(viaPath)))
                    \o <<currentAddress>>, " → ")
        ELSE <<currentAddress, " (cycle detected)">>
  IN TraceResult(<<>>, << <<"Cycle detected: ">> \o cyclePath >>)

\* lines 203-213: owner definitions and delay references of all functions
AllOwnerDefs(functionOwners) ==
  Flatten([k \in 1..Len(functionOwners) |-> functionOwners[k].ownerDefinitions])

FunctionDelays(functionOwners) ==
  Flatten([k \in 1..Len(functionOwners) |-> functionOwners[k].delay])

\* the delays of one contract are added up
StepSum(stepDelay, resolvedDelay) ==
  IF resolvedDelay.isResolved THEN stepDelay + resolvedDelay.seconds ELSE stepDelay

\* line 256
StepMax(stepDelay, resolvedDelay) ==
  IF resolvedDelay.isResolved THEN Max(stepDelay, resolvedDelay.seconds) ELSE stepDelay

\* lines 252-258
RECURSIVE StepDelay(_, _)
StepDelay(f, functionDelays) ==
  IF functionDelays = <<>> THEN 0
  ELSE Bind(StepDelay(f, SubSeq(functionDelays, 1, Len(functionDelays) - 1)),
            LAMBDA stepDelay :
              Bind(resolveDelayFromDiscovered(f, functionDelays[Len(functionDelays)]),
                   LAMBDA resolvedDelay : StepMax(stepDelay, resolvedDelay)))

\* the reducer returns the element instead of the updated sum
CumulativeDelayLast(delays) ==
  IF delays = <<>> THEN 0 ELSE delays[Len(delays)]

\* line 371: delays.reduce((sum, d) => sum + d, 0)
RECURSIVE CumulativeDelay(_)
CumulativeDelay(delays) ==
  IF delays = <<>> THEN 0
  ELSE CumulativeDelay(SubSeq(delays, 1, Len(delays) - 1)) + delays[Len(delays)]

UltimateOwner(o) ==
  Bind(CumulativeDelay(o.delays), LAMBDA cumulativeDelay :
    [address |-> o.address, addressType |-> o.addressType, via |-> o.via,
     delays |-> o.delays, cumulativeDelay |-> cumulativeDelay,
     cumulativeDelayFormatted |-> formatDelay(cumulativeDelay)])

\* the key leaves out the via addresses
DedupKeyAddressOnly(owner) == <<owner.address>>

\* lines 428-429
DedupKey(owner) == <<owner.address, "|">> \o Join(ViaAddresses(owner.via), "→")

\* line 432: seen.has(key) when the n-th owner is reached, seen holding the keys
\* of the owners before it
SeenHas(owners, n) ==
  \E k \in 1..(n - 1) : DedupKey(owners[k]) = DedupKey(owners[n])

\* the values of seen after the first n owners, in insertion order
RECURSIVE SeenValues(_, _)
SeenValues(owners, n) ==
  IF n = 0 THEN <<>>
  ELSE SeenValues(owners, n - 1) \o (IF SeenHas(owners, n) THEN <<>> ELSE <<owners[n]>>)

deduplicateUltimateOwners(owners) == SeenValues(owners, Len(owners))

----------------------------------------------------------------------------
(* The documents the run is started on *)

Chars86400 == <<"8", "6", "4", "0", "0">>
Chars3600 == <<"3", "6", "0", "0">>
Chars60 == <<"6", "0">>
CharsNegative == <<"-", "5">>
CharsWord == <<"a", "b", "c">>
CharsSuffixed == <<"1", "2", "h">>

Addresses(s) == [k \in 1..Len(s) |-> AddressFieldValue(s[k], "Unknown")]

ArrayValues ==
  {ArrayFieldValue(Addresses(s)) : s \in SeqsUpTo({AddrB, AddrM}, MaxArrayLen)}

OwnerValuesA ==
  ArrayValues \cup {AddressFieldValue(AddrA, "Contract"), AddressFieldValue(AddrX, "Unknown")}

OwnerValuesB ==
  {AddressFieldValue(AddrA, "Contract"), AddressFieldValue(AddrB, "Contract"),
   AddressFieldValue(AddrM, "Multisig"), AddressFieldValue(AddrT, "Contract"),
   StringFieldValue(CharsWord), ArrayFieldValue(Addresses(<<AddrM, AddrA>>))}

DefLists ==
  {None} \cup
  {Some(s) : s \in SeqsUpTo({OwnerDefinition(SelfOwner), OwnerDefinition(SelfNonexistent)},
                            MaxOwnerDefs)}

Classifications == {"permissioned", "non-permissioned"}

DelayRefs ==
  {None, Some(DelayRef(AddrB, "minDelay")), Some(DelayRef(AddrA, "minDelay")),
   Some(DelayRef(AddrB, "nonexistent")), Some(DelayRef(AddrX, "minDelay"))}

DelayValues ==
  {NumberFieldValue(Chars86400), NumberFieldValue(Chars60), NumberFieldValue(CharsNegative),
   NumberFieldValue(CharsWord), NumberFieldValue(CharsSuffixed), StringFieldValue(Chars86400)}

Snapshot(typeB, ownerA, ownerB, delayB) ==
  <<DiscoveredEntry(AddrA, "Contract",
      <<Field("owner", ownerA), Field("minDelay", NumberFieldValue(Chars3600))>>),
    DiscoveredEntry(AddrB, typeB, <<Field("owner", ownerB), Field("minDelay", delayB)>>),
    DiscoveredEntry(AddrM, "Multisig", <<>>),
    DiscoveredEntry(AddrT, "Contract", <<>>)>>

World(entries, contracts) == [entries |-> entries, contracts |-> contracts]

\* ownership shapes: what A and B name as their owners, and how A's function names them
GraphWorldsOf(TypesB, OwnersA, OwnersB, Defs, Classes) ==
  {World(Snapshot(typeB, ownerA, ownerB, NumberFieldValue(Chars86400)),
         <<ContractPermissions(AddrA,
             <<PermissionOverride("f", "permissioned", defsF,
                                  Some(DelayRef(AddrA, "minDelay")))>>),
           ContractPermissions(AddrB,
             <<PermissionOverride("g", classG, Some(<<OwnerDefinition(SelfOwner)>>),
                                  Some(DelayRef(AddrB, "minDelay")))>>)>>) :
     typeB \in TypesB, ownerA \in OwnersA, ownerB \in OwnersB,
     defsF \in Defs, classG \in Classes}

GraphWorlds ==
  GraphWorldsOf({"Contract", "Multisig"}, OwnerValuesA, OwnerValuesB, DefLists, Classifications)

\* delay shapes on the chain A.f -> B -> M: the delay references of B's two functions
DelayWorldsOf(TypesB, Values, Refs1, Refs2) ==
  {World(Snapshot(typeB, AddressFieldValue(AddrB, typeB),
                  AddressFieldValue(AddrM, "Multisig"), delayB),
         <<ContractPermissions(AddrA,
             <<PermissionOverride("f", "permissioned", Some(<<OwnerDefinition(SelfOwner)>>),
                                  None)>>),
           ContractPermissions(AddrB,
             <<PermissionOverride("g", "permissioned", Some(<<OwnerDefinition(SelfOwner)>>),
                                  delay1),
               PermissionOverride("h", class2, defs2, delay2)>>)>>) :
     typeB \in TypesB, delayB \in Values, delay1 \in Refs1, delay2 \in Refs2,
     class2 \in Classifications, defs2 \in {None, Some(<<>>)}}

DelayWorlds == DelayWorldsOf({"Contract", "Timelock"}, DelayValues, DelayRefs, DelayRefs)

\* snapshots every entry of which can lie on one path
SmallSnapshot(n, ownerA, ownerB) ==
  SubSeq(<<DiscoveredEntry(AddrA, "Contract", <<Field("owner", ownerA)>>),
           DiscoveredEntry(AddrB, "Contract", <<Field("owner", ownerB)>>)>>, 1, n)

SmallWorlds ==
  {World(SmallSnapshot(n, AddressFieldValue(ownerA, "Unknown"),
                       AddressFieldValue(ownerB, "Unknown")),
         <<ContractPermissions(AddrA,
             <<PermissionOverride("f", "permissioned", Some(<<OwnerDefinition(SelfOwner)>>),
                                  None)>>),
           ContractPermissions(AddrB,
             <<PermissionOverride("g", "permissioned", Some(<<OwnerDefinition(SelfOwner)>>),
                                  None)>>)>>) :
     n \in {1, 2}, ownerA \in {AddrA, AddrB, AddrX}, ownerB \in {AddrA, AddrB, AddrX}}

\* the chain A.f -> B -> owner of B with permission types on the two edges
PermissionWorlds ==
  {World(Snapshot("Contract", AddressFieldValue(AddrB, "Contract"), ownerB,
                  NumberFieldValue(Chars86400)),
         <<ContractPermissions(AddrA,
             <<PermissionOverride("f", "permissioned", Some(<<defF>>), None)>>),
           ContractPermissions(AddrB,
             <<PermissionOverride("g", "permissioned", Some(<<defG>>), None)>>)>>) :
     ownerB \in {AddressFieldValue(AddrM, "Multisig"), AddressFieldValue(AddrA, "Contract")},
     defF \in {OwnerDefinition(SelfOwner), TypedOwnerDefinition(SelfOwner, "admin")},
     defG \in {OwnerDefinition(SelfOwner), TypedOwnerDefinition(SelfOwner, "act"),
               TypedOwnerDefinition(SelfOwner, "admin")}}

\* owner fields that spell the address of an entry in the other letter case
CaseWorlds ==
  GraphWorldsOf({"Contract", "Multisig"},
                {AddressFieldValue(AddrBLower, "Unknown"),
                 ArrayFieldValue(Addresses(<<AddrB, AddrBLower>>))},
                {AddressFieldValue(AddrM, "Multisig"), AddressFieldValue(AddrALower, "Unknown")},
                {Some(<<OwnerDefinition(SelfOwner)>>)}, {"permissioned"})

\* X.k is owned by A, A by B and T: branches that meet again or run into a cycle;
\* of the contracts on them only B has a delay
DiamondWorlds ==
  {World(<<DiscoveredEntry(AddrA, "Contract",
             <<Field("owner", ArrayFieldValue(Addresses(<<AddrB, AddrT>>)))>>),
           DiscoveredEntry(AddrB, "Contract",
             <<Field("owner", ownerB), Field("minDelay", NumberFieldValue(delayB))>>),
           DiscoveredEntry(AddrT, "Contract", <<Field("owner", ownerT)>>),
           DiscoveredEntry(AddrM, "Multisig", <<>>)>>,
         <<ContractPermissions(AddrX,
             <<PermissionOverride("k", "permissioned",
                                  Some(<<OwnerDefinition(Path(AddrA, <<>>))>>), None)>>),
           ContractPermissions(AddrA,
             <<PermissionOverride("f", "permissioned", Some(<<OwnerDefinition(SelfOwner)>>),
                                  None)>>),
           ContractPermissions(AddrB,
             <<PermissionOverride("g", "permissioned", Some(<<OwnerDefinition(SelfOwner)>>),
                                  Some(DelayRef(AddrB, "minDelay")))>>),
           ContractPermissions(AddrT,
             <<PermissionOverride("h", "permissioned", Some(<<OwnerDefinition(SelfOwner)>>),
                                  None)>>)>>) :
     ownerB \in {AddressFieldValue(AddrM, "Multisig"), AddressFieldValue(AddrA, "Contract"),
                 AddressFieldValue(AddrT, "Contract"),
                 ArrayFieldValue(Addresses(<<AddrM, AddrA>>))},
     ownerT \in {AddressFieldValue(AddrM, "Multisig"), AddressFieldValue(AddrA, "Contract"),
                 AddressFieldValue(AddrB, "Contract")},
     delayB \in {Chars60, CharsNegative}}

Worlds ==
  GraphWorlds \cup DelayWorlds \cup SmallWorlds \cup PermissionWorlds \cup CaseWorlds
    \cup DiamondWorlds

AnyWorld == CHOOSE w \in DelayWorlds : TRUE

----------------------------------------------------------------------------
(* resolvePermissionsForProject *)

\* the documents of a world in W, with the program about to run entry point start
InitAt(W, start) ==
  /\ \E w \in W :
       \/ /\ file = [status |-> "ok", entries |-> w.entries]
          /\ overrides = [exists |-> TRUE, contracts |-> w.contracts]
       \/ /\ w = AnyWorld
          /\ \/ /\ file \in {[status |-> st, entries |-> <<>>] : st \in {"missing", "malformed"}}
                /\ overrides = [exists |-> TRUE, contracts |-> w.contracts]
             \/ /\ file = [status |-> "ok", entries |-> w.entries]
                /\ overrides = [exists |-> FALSE, contracts |-> <<>>]
  /\ discovered = <<>>
  /\ graph = <<>>
  /\ pc = start
  /\ ci = 1
  /\ fi = 1
  /\ directOwners = <<>>
  /\ di = 1
  /\ ultimateOwners = <<>>
  /\ warnings = <<>>
  /\ stack = <<>>
  /\ ret = None
  /\ resolvedFunctions = <<>>
  /\ resolvedContracts = <<>>
  /\ functionsFile = [status |-> "missing", contracts |-> <<>>]
  /\ now = 1
  /\ mtime = 0
  /\ discoveredFunctionsCache = None
  /\ console = <<>>

InitOn(W) == InitAt(W, "load")

Init == InitOn(Worlds)

Contracts == overrides.contracts
CurrentContract == Contracts[ci]
CurrentFunction == CurrentContract.functions[fi]

\* lines 309-326: a missing or malformed document aborts the run
LoadFails ==
  /\ pc = "load"
  /\ ~overrides.exists \/ file.status # "ok"
  /\ pc' = "failed"
  /\ UNCHANGED <<file, overrides, discovered, graph, ci, fi, directOwners, di,
                 ultimateOwners, warnings, stack, ret, resolvedFunctions, resolvedContracts,
                 mtime, discoveredFunctionsCache, console,
                 functionsFile, now>>

\* lines 309-334
Load ==
  /\ pc = "load"
  /\ overrides.exists /\ file.status = "ok"
  /\ discovered' = file.entries
  /\ graph' = buildOwnershipGraph(Contracts)
  /\ pc' = "function"
  /\ UNCHANGED <<file, overrides, ci, fi, directOwners, di, ultimateOwners, warnings,
                 stack, ret, resolvedFunctions, resolvedContracts,
                 mtime, discoveredFunctionsCache, console,
                 functionsFile, now>>

\* lines 339-343
SkipFunction ==
  /\ pc = "function"
  /\ ci <= Len(Contracts) /\ fi <= Len(CurrentContract.functions)
  /\ CurrentFunction.userClassification # "permissioned"
  /\ fi' = fi + 1
  /\ UNCHANGED <<file, overrides, discovered, graph, pc, ci, directOwners, di,
                 ultimateOwners, warnings, stack, ret, resolvedFunctions, resolvedContracts,
                 mtime, discoveredFunctionsCache, console,
                 functionsFile, now>>

\* a function without ownerDefinitions falls back to the owner field of its contract
DirectOwnersOfDefaultOwner(f, contractAddress, func) ==
  resolveOwnerDefinitionsToAddresses(f, contractAddress,
    IF IsSome(func.ownerDefinitions) THEN Get(func.ownerDefinitions)
    ELSE <<OwnerDefinition(SelfOwner)>>)

\* lines 346-348
DirectOwnersOf(f, contractAddress, func) ==
  IF IsSome(func.ownerDefinitions)
  THEN resolveOwnerDefinitionsToAddresses(f, contractAddress, Get(func.ownerDefinitions))
  ELSE <<>>

\* lines 345-354
BeginFunction ==
  /\ pc = "function"
  /\ ci <= Len(Contracts) /\ fi <= Len(CurrentContract.functions)
  /\ CurrentFunction.userClassification = "permissioned"
  /\ directOwners' = DirectOwnersOf(file, CurrentContract.address, CurrentFunction)
  /\ ultimateOwners' = <<>>
  /\ warnings' = <<>>
  /\ di' = 1
  /\ pc' = "owners"
  /\ UNCHANGED <<file, overrides, discovered, graph, ci, fi, stack, ret,
                 resolvedFunctions, resolvedContracts,
                 mtime, discoveredFunctionsCache, console,
                 functionsFile, now>>

Frame(currentAddress, visited, viaPath, delays) ==
  [currentAddress |-> currentAddress, visited |-> visited, viaPath |-> viaPath,
   delays |-> delays, at |-> "entry", addressType |-> "", ownerAddresses |-> <<>>,
   functionDelays |-> <<>>, newVisited |-> {}, i |-> 1,
   allUltimateOwners |-> <<>>, allWarnings |-> <<>>]

\* lines 356-366
CallTrace ==
  /\ pc = "owners" /\ stack = <<>>
  /\ di <= Len(directOwners)
  /\ stack' = <<Frame(directOwners[di], {}, <<>>, <<>>)>>
  /\ UNCHANGED <<file, overrides, discovered, graph, pc, ci, fi, directOwners, di,
                 ultimateOwners, warnings, ret, resolvedFunctions, resolvedContracts,
                 mtime, discoveredFunctionsCache, console,
                 functionsFile, now>>

\* lines 387-396
EndFunction ==
  /\ pc = "owners" /\ stack = <<>>
  /\ di > Len(directOwners)
  /\ resolvedFunctions' =
       Append(resolvedFunctions,
              [functionName |-> CurrentFunction.functionName,
               directOwners |-> directOwners,
               ultimateOwners |-> deduplicateUltimateOwners(ultimateOwners),
               warnings |-> warnings])
  /\ fi' = fi + 1
  /\ pc' = "function"
  /\ UNCHANGED <<file, overrides, discovered, graph, ci, directOwners, di,
                 ultimateOwners, warnings, stack, ret, resolvedContracts,
                 mtime, discoveredFunctionsCache, console,
                 functionsFile, now>>

\* the contract is entered whether or not it has resolved functions
IncludeContractAlways(contracts, address, functions) ==
  Append(contracts, [address |-> address, functions |-> functions])

\* lines 399-404
IncludeContract(contracts, address, functions) ==
  IF Len(functions) > 0
  THEN Append(contracts, [address |-> address, functions |-> functions])
  ELSE contracts

\* lines 399-404
EndContract ==
  /\ pc = "function"
  /\ ci <= Len(Contracts) /\ fi > Len(CurrentContract.functions)
  /\ resolvedContracts' =
       IncludeContract(resolvedContracts, CurrentContract.address, resolvedFunctions)
  /\ resolvedFunctions' = <<>>
  /\ ci' = ci + 1
  /\ fi' = 1
  /\ UNCHANGED <<file, overrides, discovered, graph, pc, directOwners, di,
                 ultimateOwners, warnings, stack, ret,
                 mtime, discoveredFunctionsCache, console,
                 functionsFile, now>>

\* lines 407-415
Finish ==
  /\ pc = "function"
  /\ ci > Len(Contracts)
  /\ pc' = "done"
  /\ UNCHANGED <<file, overrides, discovered, graph, ci, fi, directOwners, di,
                 ultimateOwners, warnings, stack, ret, resolvedFunctions, resolvedContracts,
                 mtime, discoveredFunctionsCache, console,
                 functionsFile, now>>

----------------------------------------------------------------------------
(* traceOwnerPath: one activation record per call *)

Top == stack[Len(stack)]
Callers == SubSeq(stack, 1, Len(stack) - 1)

TopType == getAddressType(Top.currentAddress, discovered)
TopGraphEntry == GraphEntry(graph, Top.currentAddress)
TopFunctionOwners ==
  IF TopGraphEntry = 0 THEN <<>> ELSE graph[TopGraphEntry].functionOwners
TopOwnerAddresses ==
  resolveOwnerDefinitionsToAddresses(file, Top.currentAddress, AllOwnerDefs(TopFunctionOwners))

AtEntry == stack # <<>> /\ Top.at = "entry"
AtLoop == stack # <<>> /\ Top.at = "loop"

\* the callee returns result: lines 289-291 in a recursive caller, lines 369-384
\* in resolvePermissionsForProject
Return(result) ==
  /\ ret' = Some([currentAddress |-> Top.currentAddress, visited |-> Top.visited,
                  viaPath |-> Top.viaPath, delays |-> Top.delays, result |-> result])
  /\ IF Callers = <<>>
     THEN /\ stack' = <<>>
          /\ ultimateOwners' = ultimateOwners \o
               [k \in 1..Len(result.ultimateOwners) |-> UltimateOwner(result.ultimateOwners[k])]
          /\ warnings' = warnings \o result.warnings
          /\ di' = di + 1
     ELSE /\ stack' = [Callers EXCEPT ![Len(Callers)] =
               [@ EXCEPT !.allUltimateOwners = @ \o result.ultimateOwners,
                         !.allWarnings = @ \o result.warnings,
                         !.i = @ + 1]]
          /\ UNCHANGED <<ultimateOwners, warnings, di>>
  /\ UNCHANGED <<file, overrides, discovered, graph, pc, ci, fi, directOwners,
                 resolvedFunctions, resolvedContracts,
                 mtime, discoveredFunctionsCache, console,
                 functionsFile, now>>

\* the address is put on the path before it is reported
SelfResultOnPath ==
  TraceResult(<<TraceOwner(Top.currentAddress, TopType,
                           Append(Top.viaPath, ViaStep(Top.currentAddress, TopType, 0)),
                           Top.delays)>>, <<>>)

\* lines 171-182, 187-199, 222-233: the address itself is the ultimate owner
SelfResult ==
  TraceResult(<<TraceOwner(Top.currentAddress, TopType, Top.viaPath, Top.delays)>>, <<>>)

\* lines 153-167
TraceCycle ==
  /\ AtEntry
  /\ Top.currentAddress \in Top.visited
  /\ Return(CycleResult(Top.currentAddress, Top.viaPath))

\* lines 169-183
TraceTerminal ==
  /\ AtEntry
  /\ Top.currentAddress \notin Top.visited
  /\ isTerminalAddress(TopType)
  /\ Return(SelfResult)

\* lines 185-200
TraceUnannotated ==
  /\ AtEntry
  /\ Top.currentAddress \notin Top.visited
  /\ ~isTerminalAddress(TopType)
  /\ TopGraphEntry = 0 \/ Len(TopFunctionOwners) = 0
  /\ Return(SelfResult)

\* lines 202-234
TraceNoOwners ==
  /\ AtEntry
  /\ Top.currentAddress \notin Top.visited
  /\ ~isTerminalAddress(TopType)
  /\ TopGraphEntry # 0 /\ Len(TopFunctionOwners) # 0
  /\ Len(TopOwnerAddresses) = 0
  /\ Return(SelfResult)

\* the current address is not added to the copy
NewVisitedForgetsCurrent(visited, currentAddress) == visited

\* the copy is not taken: the set holds the current address only
NewVisitedOnlyCurrent(visited, currentAddress) == {currentAddress}

NewVisited(visited, currentAddress) == visited \cup {currentAddress}

\* lines 202-248
TraceExpand ==
  /\ AtEntry
  /\ Top.currentAddress \notin Top.visited
  /\ ~isTerminalAddress(TopType)
  /\ TopGraphEntry # 0 /\ Len(TopFunctionOwners) # 0
  /\ Len(TopOwnerAddresses) # 0
  /\ stack' = [stack EXCEPT ![Len(stack)] =
       [@ EXCEPT !.at = "loop",
                 !.addressType = TopType,
                 !.ownerAddresses = TopOwnerAddresses,
                 !.functionDelays = FunctionDelays(TopFunctionOwners),
                 !.newVisited = NewVisited(Top.visited, Top.currentAddress),
                 !.i = 1]]
  /\ UNCHANGED <<file, overrides, discovered, graph, pc, ci, fi, directOwners, di,
                 ultimateOwners, warnings, ret, resolvedFunctions, resolvedContracts,
                 mtime, discoveredFunctionsCache, console,
                 functionsFile, now>>

\* the step delay is pushed whatever it is
NewDelaysAlways(delays, stepDelay) == Append(delays, stepDelay)

NewDelays(delays, stepDelay) ==
  IF stepDelay > 0 THEN Append(delays, stepDelay) ELSE delays

\* the owners the loop has already traced count as visited too
ChildVisitedWithSiblings(newVisited, ownerAddresses, i) ==
  newVisited \cup {ownerAddresses[k] : k \in 1..(i - 1)}

\* lines 247-248 and 279-283: every owner of the loop is traced with the same newVisited
ChildVisited(newVisited, ownerAddresses, i) == newVisited

\* lines 260-287: the call for the owner the loop is at
ChildFrame(stepDelay) ==
  Frame(Top.ownerAddresses[Top.i], ChildVisited(Top.newVisited, Top.ownerAddresses, Top.i),
        Append(Top.viaPath, ViaStep(Top.currentAddress, Top.addressType, stepDelay)),
        NewDelays(Top.delays, stepDelay))

\* lines 250-287
TraceDescend ==
  /\ AtLoop
  /\ Top.i <= Len(Top.ownerAddresses)
  /\ Len(stack) < MaxStack
  /\ stack' = Append(stack, Bind(StepDelay(file, Top.functionDelays), ChildFrame))
  /\ UNCHANGED <<file, overrides, discovered, graph, pc, ci, fi, directOwners, di,
                 ultimateOwners, warnings, ret, resolvedFunctions, resolvedContracts,
                 mtime, discoveredFunctionsCache, console,
                 functionsFile, now>>

\* lines 294-297
TraceReturn ==
  /\ AtLoop
  /\ Top.i > Len(Top.ownerAddresses)
  /\ Return(TraceResult(Top.allUltimateOwners, Top.allWarnings))

----------------------------------------------------------------------------

Next ==
  \/ LoadFails
  \/ Load
  \/ SkipFunction
  \/ BeginFunction
  \/ CallTrace
  \/ TraceCycle
  \/ TraceTerminal
  \/ TraceUnannotated
  \/ TraceNoOwners
  \/ TraceExpand
  \/ TraceDescend
  \/ TraceReturn
  \/ EndFunction
  \/ EndContract
  \/ Finish

Spec == Init /\ [][Next]_vars

\* the run is one synchronous call: it keeps executing until it returns or throws
FairSpec == Init /\ [][Next]_vars /\ WF_vars(Next)

----------------------------------------------------------------------------
(* A run during which discovered.json is rewritten by another process *)

IOWorlds ==
  GraphWorldsOf({"Contract"},
                {ArrayFieldValue(Addresses(<<AddrB>>)), AddressFieldValue(AddrA, "Contract"),
                 AddressFieldValue(AddrX, "Unknown")},
                {AddressFieldValue(AddrA, "Contract"), AddressFieldValue(AddrM, "Multisig"),
                 AddressFieldValue(AddrT, "Contract"), StringFieldValue(CharsWord)},
                {Some(<<OwnerDefinition(SelfOwner)>>)}, Classifications)
    \cup {AnyWorld}

\* the file is replaced once, after resolvePermissionsForProject has read it
FileChanges ==
  /\ pc \in {"function", "owners"}
  /\ file.status = "ok" /\ file.entries = discovered
  /\ \E w \in IOWorlds :
       /\ w.entries # discovered
       /\ file' = [status |-> "ok", entries |-> w.entries]
  /\ UNCHANGED <<overrides, discovered, graph, pc, ci, fi, directOwners, di,
                 ultimateOwners, warnings, stack, ret, resolvedFunctions, resolvedContracts,
                 mtime, discoveredFunctionsCache, console,
                 functionsFile, now>>

NextIO == Next \/ FileChanges

SpecIO == InitOn(IOWorlds) /\ [][NextIO]_vars

----------------------------------------------------------------------------
(* The Delay Resolver called on its own *)

CharsZero == <<"0">>
CharsPadded == <<" ", "4", "2">>
CharsSigned == <<"+", "7">>
CharsEmpty == <<>>

DelayTexts ==
  {Chars86400, Chars60, CharsNegative, CharsWord, CharsSuffixed, CharsZero,
   CharsPadded, CharsSigned, CharsEmpty}

DelayFiles ==
  {[status |-> "ok",
    entries |-> Snapshot(typeB, AddressFieldValue(AddrB, typeB),
                         AddressFieldValue(AddrM, "Multisig"), delayB)] :
     typeB \in {"Contract", "Timelock"},
     delayB \in {NumberFieldValue(t) : t \in DelayTexts}
                  \cup {StringFieldValue(t) : t \in DelayTexts}}
    \cup {[status |-> st, entries |-> <<>>] : st \in {"missing", "malformed"}}

DelayInit ==
  /\ file \in DelayFiles
  /\ overrides = [exists |-> FALSE, contracts |-> <<>>]
  /\ discovered = <<>>
  /\ graph = <<>>
  /\ pc = "delay"
  /\ ci = 1
  /\ fi = 1
  /\ directOwners = <<>>
  /\ di = 1
  /\ ultimateOwners = <<>>
  /\ warnings = <<>>
  /\ stack = <<>>
  /\ ret = None
  /\ resolvedFunctions = <<>>
  /\ resolvedContracts = <<>>
  /\ functionsFile = [status |-> "missing", contracts |-> <<>>]
  /\ now = 1
  /\ mtime = 0
  /\ discoveredFunctionsCache = None
  /\ console = <<>>

\* one call of resolveDelayFromDiscovered; ret holds its argument and result
ResolveDelay ==
  /\ pc = "delay"
  /\ \E r \in DelayRefs \ {None} :
       ret' = Some([delayRef |-> Get(r),
                    resolvedDelay |-> resolveDelayFromDiscovered(file, Get(r))])
  /\ UNCHANGED <<file, overrides, discovered, graph, pc, ci, fi, directOwners, di,
                 ultimateOwners, warnings, stack, resolvedFunctions, resolvedContracts,
                 mtime, discoveredFunctionsCache, console,
                 functionsFile, now>>

DelaySpec == DelayInit /\ [][ResolveDelay]_vars

----------------------------------------------------------------------------
(* loadDiscoveredFunctions and its cache, with discovered.json being rewritten *)

\* one element of an entry's writeFunctionPermissions
WritePermission(f, t) == [function |-> f, permissionType |-> t]

\* lines 198-206 (the timestamp of the entry is left out)
DiscoveredFunction(permission) ==
  [functionName |-> permission.function,
   isPermissioned |-> permission.permissionType \in {"modifier", "msgSender"},
   reason |-> <<"Auto-detected: ", permission.permissionType>>]

\* lines 194-208
RECURSIVE PermissionFunctions(_)
PermissionFunctions(permissions) ==
  IF permissions = <<>> THEN <<>>
  ELSE (IF Head(permissions).function # "" /\ Head(permissions).permissionType # ""
        THEN <<DiscoveredFunction(Head(permissions))>> ELSE <<>>)
       \o PermissionFunctions(Tail(permissions))

\* contracts[contractAddress] = value on an object kept as its sequence of entries
ContractSet(obj, value) ==
  LET k == FindIndex(obj, LAMBDA x : x.address = value.address) IN
  IF k = 0 THEN Append(obj, value) ELSE [obj EXCEPT ![k] = value]

\* lines 183-216
RECURSIVE DiscoveredContracts(_)
DiscoveredContracts(entries) ==
  IF entries = <<>> THEN <<>>
  ELSE LET entry == entries[Len(entries)]
           rest == DiscoveredContracts(SubSeq(entries, 1, Len(entries) - 1))
           k == FindIndex(entry.fields, LAMBDA x : x.name = "writeFunctionPermissions")
       IN IF /\ entry.type = "Contract"
             /\ k # 0
             /\ entry.fields[k].value.type = "array"
             /\ PermissionFunctions(entry.fields[k].value.values) # <<>>
          THEN ContractSet(rest, [address |-> entry.address,
                                  functions |-> PermissionFunctions(entry.fields[k].value.values)])
          ELSE rest

\* line 174, and a variant that trusts any cache entry
CacheHitAnyMtime(cached, currentMtime) == IsSome(cached)

CacheHit(cached, currentMtime) ==
  IsSome(cached) /\ Get(cached).mtime = currentMtime

ParsingMessage == "Parsing discovered.json for functions"
CachedMessage == "Cached discovered functions"
ErrorMessage == "Error parsing discovered.json:"

PermissionsOf(a, t, ps) ==
  DiscoveredEntry(a, t, <<Field("writeFunctionPermissions", ArrayFieldValue(ps))>>)

CacheFiles ==
  {[status |-> "ok", entries |-> es] :
     es \in {<<PermissionsOf(AddrA, "Contract", <<WritePermission("f", "modifier")>>)>>,
             <<PermissionsOf(AddrA, "Contract", <<WritePermission("f", "msgSender"),
                                                  WritePermission("g", "view")>>),
               PermissionsOf(AddrB, "Contract", <<WritePermission("h", "modifier")>>)>>,
             <<PermissionsOf(AddrA, "Multisig", <<WritePermission("f", "modifier")>>),
               PermissionsOf(AddrB, "Contract", <<WritePermission("h", "")>>)>>,
             <<DiscoveredEntry(AddrA, "Contract",
                 <<Field("writeFunctionPermissions", StringFieldValue(CharsWord))>>),
               DiscoveredEntry(AddrB, "Contract", <<>>)>>}}
    \cup {[status |-> st, entries |-> <<>>] : st \in {"missing", "malformed"}}

CacheInit ==
  /\ file \in CacheFiles
  /\ mtime = 0
  /\ discoveredFunctionsCache = None
  /\ console = <<>>
  /\ overrides = [exists |-> FALSE, contracts |-> <<>>]
  /\ discovered = <<>>
  /\ graph = <<>>
  /\ pc = "functions"
  /\ ci = 1
  /\ fi = 1
  /\ directOwners = <<>>
  /\ di = 1
  /\ ultimateOwners = <<>>
  /\ warnings = <<>>
  /\ stack = <<>>
  /\ ret = None
  /\ resolvedFunctions = <<>>
  /\ resolvedContracts = <<>>
  /\ functionsFile = [status |-> "missing", contracts |-> <<>>]
  /\ now = 1

\* lines 163-231: one call; ret holds the contracts it returns
loadDiscoveredFunctions ==
  /\ pc = "functions"
  /\ Len(console) + 2 <= MaxLog
  /\ IF file.status = "missing"
     THEN /\ ret' = Some(<<>>)
          /\ UNCHANGED <<discoveredFunctionsCache, console,
                 functionsFile, now>>
     ELSE IF CacheHit(discoveredFunctionsCache, mtime)
     THEN /\ ret' = Some(Get(discoveredFunctionsCache).contracts)
          /\ UNCHANGED <<discoveredFunctionsCache, console,
                 functionsFile, now>>
     ELSE IF file.status = "malformed"
     THEN /\ ret' = Some(<<>>)
          /\ console' = console \o <<ParsingMessage, ErrorMessage>>
          /\ UNCHANGED discoveredFunctionsCache
     ELSE /\ discoveredFunctionsCache' =
               Some([contracts |-> DiscoveredContracts(file.entries), mtime |-> mtime])
          /\ console' = console \o <<ParsingMessage, CachedMessage>>
          /\ ret' = Some(DiscoveredContracts(file.entries))
  /\ UNCHANGED <<file, mtime, overrides, discovered, graph, pc, ci, fi, directOwners, di,
                 ultimateOwners, warnings, stack, resolvedFunctions, resolvedContracts,
                 functionsFile, now>>

\* another process rewrites, removes or touches discovered.json
ModifyDiscovered ==
  /\ pc = "functions"
  /\ file' \in CacheFiles
  /\ mtime' \in 0..MaxMtime
  /\ <<file', mtime'>> # <<file, mtime>>
  /\ UNCHANGED <<overrides, discovered, graph, pc, ci, fi, directOwners, di,
                 ultimateOwners, warnings, stack, ret, resolvedFunctions, resolvedContracts,
                 discoveredFunctionsCache, console,
                 functionsFile, now>>

NextCache == loadDiscoveredFunctions \/ ModifyDiscovered

CacheSpec == CacheInit /\ [][NextCache]_vars

----------------------------------------------------------------------------
(* updateFunction on functions.json *)

\* an optional value of a JSON object: None when undefined, Some(v) for the
\* value v, and Null, told from both by its length, for null
Null == <<"null", "null">>
Nullish(a) == Len(a) # 1

\* a ?? b, and a variant that forgets b
CoalesceRequestOnly(a, b) == a

Coalesce(a, b) == IF Nullish(a) THEN b ELSE a

\* existingFunction?.field
ExistingField(existingFunction, field) ==
  IF IsSome(existingFunction) THEN Get(existingFunction)[field] ELSE None

OptionalFields ==
  {"checked", "score", "probability", "reason", "description", "constraints",
   "ownerDefinitions"}

\* lines 102-114
NewFunction(updateRequest, existingFunction, timestamp) ==
  [field \in OptionalFields \cup {"functionName", "isPermissioned", "delay", "timestamp"} |->
     CASE field = "functionName" -> updateRequest.functionName
       [] field = "isPermissioned" ->
            Coalesce(updateRequest.isPermissioned,
                     Coalesce(ExistingField(existingFunction, "isPermissioned"), Some(FALSE)))
       [] field = "delay" ->
            IF updateRequest.delay # None THEN updateRequest.delay
            ELSE ExistingField(existingFunction, "delay")
       [] field = "timestamp" -> timestamp
       [] OTHER -> Coalesce(updateRequest[field], ExistingField(existingFunction, field))]

\* lines 116-121, and a variant that always pushes
PutFunctionAlwaysPush(functions, existingFunctionIndex, newFunction) ==
  Append(functions, newFunction)

PutFunction(functions, existingFunctionIndex, newFunction) ==
  IF existingFunctionIndex > 0
  THEN [functions EXCEPT ![existingFunctionIndex] = newFunction]
  ELSE Append(functions, newFunction)

\* lines 76-85: the contracts of the file, none when it is missing or malformed
UserContracts(f) == IF f.status = "ok" THEN f.contracts ELSE <<>>

\* lines 90-93
WithContract(userContracts, contractAddress) ==
  IF FindIndex(userContracts, LAMBDA c : c.address = contractAddress) = 0
  THEN Append(userContracts, [address |-> contractAddress, functions |-> <<>>])
  ELSE userContracts

\* lines 87-121: the contracts written back
UpdatedContracts(f, updateRequest, timestamp) ==
  LET userContracts == WithContract(UserContracts(f), updateRequest.contractAddress)
      c == FindIndex(userContracts, LAMBDA x : x.address = updateRequest.contractAddress)
      functions == userContracts[c].functions
      existingFunctionIndex ==
        FindIndex(functions, LAMBDA func : func.functionName = updateRequest.functionName)
      existingFunction ==
        IF existingFunctionIndex > 0 THEN Some(functions[existingFunctionIndex]) ELSE None
  IN [userContracts EXCEPT
        ![c].functions =
           PutFunction(functions, existingFunctionIndex,
                       NewFunction(updateRequest, existingFunction, timestamp))]

\* what a request can carry besides contractAddress and functionName
Payload(p, ch, sc, re, od, d) ==
  [isPermissioned |-> p, checked |-> ch, score |-> sc, probability |-> None,
   reason |-> re, description |-> None, constraints |-> None,
   ownerDefinitions |-> od, delay |-> d]

Payloads ==
  {Payload(None, None, None, None, None, None),
   Payload(Some(TRUE), Some(TRUE), Some("low-risk"), Some("onlyOwner"),
           Some(<<OwnerDefinition(SelfOwner)>>), Some(DelayRef(AddrB, "minDelay"))),
   Payload(Some(FALSE), Some(FALSE), Null, None, Some(<<>>), Null),
   Payload(None, Null, Some("critical"), None, None, None)}

UpdateRequest(c, n, payload) ==
  [field \in DOMAIN payload \cup {"contractAddress", "functionName"} |->
     CASE field = "contractAddress" -> c
       [] field = "functionName" -> n
       [] OTHER -> payload[field]]

UpdateRequests ==
  {UpdateRequest(c, n, p) : c \in {AddrA, AddrB}, n \in {"f", "g"}, p \in Payloads}

StoredFunction(n, payload) ==
  NewFunction(UpdateRequest(AddrA, n, payload), None, 0)

\* functions.json before the first call: every pair at most once
FunctionsFiles ==
  {[status |-> st, contracts |-> <<>>] : st \in {"missing", "malformed", "ok"}}
    \cup {[status |-> "ok",
           contracts |-> <<[address |-> AddrB,
                            functions |-> <<StoredFunction("g", p), StoredFunction("f", q)>>]>>] :
            p, q \in Payloads}

UpdateInit ==
  /\ functionsFile \in FunctionsFiles
  /\ now = 1
  /\ mtime = 0
  /\ discoveredFunctionsCache = None
  /\ console = <<>>
  /\ file = [status |-> "missing", entries |-> <<>>]
  /\ overrides = [exists |-> FALSE, contracts |-> <<>>]
  /\ discovered = <<>>
  /\ graph = <<>>
  /\ pc = "update"
  /\ ci = 1
  /\ fi = 1
  /\ directOwners = <<>>
  /\ di = 1
  /\ ultimateOwners = <<>>
  /\ warnings = <<>>
  /\ stack = <<>>
  /\ ret = None
  /\ resolvedFunctions = <<>>
  /\ resolvedContracts = <<>>

\* lines 68-138: one call at time now; ret holds its updateRequest
updateFunction ==
  /\ pc = "update"
  /\ now <= MaxClock
  /\ \E updateRequest \in UpdateRequests :
       /\ functionsFile' =
            [status |-> "ok", contracts |-> UpdatedContracts(functionsFile, updateRequest, now)]
       /\ ret' = Some(updateRequest)
  /\ now' = now + 1
  /\ UNCHANGED <<file, overrides, discovered, graph, pc, ci, fi, directOwners, di,
                 ultimateOwners, warnings, stack, resolvedFunctions, resolvedContracts,
                 mtime, discoveredFunctionsCache, console>>

UpdateSpec == UpdateInit /\ [][updateFunction]_vars

----------------------------------------------------------------------------
(* generateDefidiscoClingoFacts: the facts handed to the Logic Solver *)

\* lines 185-187: the colon of a chain-specific address becomes an underscore
formatAddress(address) ==
  CASE address = AddrA -> "eth_0xA"
    [] address = AddrB -> "eth_0xB"
    [] address = AddrT -> "eth_0xT"
    [] address = AddrM -> "eth_0xM"
    [] address = AddrX -> "eth_0xX"
    [] address = AddrALower -> "eth_0xa"
    [] address = AddrBLower -> "eth_0xb"

\* lines 193-200: the function names of the model hold none of the characters
\* (backslash, quote, newline, carriage return, tab) that are rewritten
escapeString(str) == str

\* lines 205-222
mapAddressType(apiType) ==
  CASE apiType \in {"EOA", "EOAPermissioned"} -> "eoa"
    [] apiType = "Multisig" -> "multisig"
    [] apiType \in {"Contract", "Diamond", "Timelock"} -> "contract"
    [] OTHER -> "unknown"

\* line 98: explicitPermissionTypes[index % explicitPermissionTypes.length]
ExplicitType(explicitPermissionTypes, index) ==
  explicitPermissionTypes[(index % Len(explicitPermissionTypes)) + 1]

\* lines 99-115
FactPermissionType(entries, explicitType, ownerAddress) ==
  IF IsSome(explicitType) THEN Get(explicitType)
  ELSE LET ownerEntry == FindEntry(entries, ownerAddress)
           ownerType == IF ownerEntry = 0 THEN "undefined" ELSE entries[ownerEntry].type
       IN IF ownerType \in {"EOA", "EOAPermissioned", "Multisig"} THEN "act" ELSE "admin"

\* lines 78-84
DelaySeconds(f, func) ==
  IF IsSome(func.delay)
  THEN LET resolvedDelay == resolveDelayFromDiscovered(f, Get(func.delay))
       IN IF resolvedDelay.isResolved THEN resolvedDelay.seconds ELSE 0
  ELSE 0

\* what one permission fact is made from
Permission(contractAddress, permissionType, ownerAddress, delaySeconds, role) ==
  [receiver |-> contractAddress, permissionType |-> permissionType, giver |-> ownerAddress,
   delay |-> delaySeconds, role |-> role]

\* lines 60-137 for one function
FunctionPermissions(f, entries, contractAddress, func) ==
  IF func.userClassification # "permissioned" \/ ~IsSome(func.ownerDefinitions) THEN <<>>
  ELSE LET ownerDefinitions == Get(func.ownerDefinitions)
           resolvedOwners == resolveOwnersFromDiscovered(f, contractAddress, ownerDefinitions)
           explicitPermissionTypes ==
             [k \in 1..Len(ownerDefinitions) |-> ownerDefinitions[k].permissionType]
       IN Flatten([k \in 1..Len(resolvedOwners) |->
            IF ~resolvedOwners[k].isResolved THEN <<>>
            ELSE <<Permission(contractAddress,
                              FactPermissionType(entries,
                                ExplicitType(explicitPermissionTypes, k - 1),
                                resolvedOwners[k].address),
                              resolvedOwners[k].address, DelaySeconds(f, func),
                              escapeString(func.functionName))>>])

\* lines 59-138
AllPermissions(f, entries, contracts) ==
  Flatten([c \in 1..Len(contracts) |->
    Flatten([j \in 1..Len(contracts[c].functions) |->
      FunctionPermissions(f, entries, contracts[c].address, contracts[c].functions[j])])])

\* Set.add on a set kept in insertion order
RECURSIVE AddAll(_, _)
AddAll(set, items) ==
  IF items = <<>> THEN set
  ELSE AddAll(IF Head(items) \in Range(set) THEN set ELSE Append(set, Head(items)),
              Tail(items))

\* lines 54-56 and 93
AllAddresses(contracts, permissions) ==
  AddAll(AddAll(<<>>, [c \in 1..Len(contracts) |-> contracts[c].address]),
         [k \in 1..Len(permissions) |-> permissions[k].giver])

\* lines 118-120
AddressesPassingActPermission(permissions) ==
  {permissions[k].giver : k \in {i \in 1..Len(permissions) : permissions[i].permissionType = "act"}}

Fact(predicate, args) == [predicate |-> predicate, args |-> args]

\* lines 133-135
PermissionFact(p) ==
  Fact("permission", <<formatAddress(p.receiver), p.permissionType, formatAddress(p.giver),
                       p.delay, "nil", p.role>>)

\* lines 141-168 for one address; every address of the model is on chain eth
AddressFacts(entries, passing, address) ==
  LET entry == FindEntry(entries, address) IN
  <<Fact("address", <<formatAddress(address), "eth", address>>),
    Fact("addressType",
         <<formatAddress(address),
           IF entry # 0 THEN mapAddressType(entries[entry].type) ELSE "unknown">>)>>
  \o (IF address \notin passing
      THEN <<Fact("canActIndependently", <<formatAddress(address)>>)>> ELSE <<>>)

\* lines 172-176
DefaultFacts ==
  <<Fact("%", <<"Empty defaults for optional predicates">>),
    Fact("msig", <<"_dummy", 0>>),
    Fact("member", <<"_dummy", "_dummy">>),
    Fact("permissionCondition", <<"_dummy", "_dummy", "_dummy", 0, "_dummy", "_dummy", "_dummy">>),
    Fact("preventActingIndependently", <<"_dummy">>)>>

\* lines 25-179: the facts, or the error thrown
ClingoFacts(f, o) ==
  IF ~o.exists THEN [error |-> Some("permission-overrides.json not found"), facts |-> <<>>]
  ELSE IF f.status = "missing" THEN [error |-> Some("discovered.json not found"), facts |-> <<>>]
  ELSE IF f.status = "malformed" THEN [error |-> Some("SyntaxError"), facts |-> <<>>]
  ELSE LET permissions == AllPermissions(f, f.entries, o.contracts)
           allAddresses == AllAddresses(o.contracts, permissions)
           passing == AddressesPassingActPermission(permissions)
       IN [error |-> None,
           facts |-> [k \in 1..Len(permissions) |-> PermissionFact(permissions[k])]
                     \o Flatten([k \in 1..Len(allAddresses) |->
                                   AddressFacts(f.entries, passing, allAddresses[k])])
                     \o DefaultFacts]

\* owner definitions of A.f: without a type, with one, and lists in which a
\* definition yields no or several addresses before a definition of another type
FactDefLists ==
  {None,
   Some(<<OwnerDefinition(SelfOwner)>>),
   Some(<<TypedOwnerDefinition(SelfOwner, "upgrade")>>),
   Some(<<OwnerDefinition(SelfOwner), TypedOwnerDefinition(Path(AddrM, <<>>), "upgrade")>>),
   Some(<<TypedOwnerDefinition(Path(AddrT, <<>>), "interact"), OwnerDefinition(SelfOwner)>>),
   Some(<<OwnerDefinition(SelfNonexistent), TypedOwnerDefinition(SelfOwner, "act")>>)}

FactWorlds ==
  GraphWorldsOf({"EOA", "EOAPermissioned", "Multisig", "Contract", "Timelock", "Unknown"},
                {AddressFieldValue(AddrB, "Unknown"), AddressFieldValue(AddrX, "Unknown"),
                 ArrayFieldValue(Addresses(<<AddrB, AddrM>>)), ArrayFieldValue(<<>>)},
                {AddressFieldValue(AddrM, "Multisig")}, FactDefLists, Classifications)
    \cup {AnyWorld}

FactsInit == InitAt(FactWorlds, "facts")

\* one call of generateDefidiscoClingoFacts; ret holds what it returns or throws
generateDefidiscoClingoFacts ==
  /\ pc = "facts"
  /\ ret = None
  /\ ret' = Some(ClingoFacts(file, overrides))
  /\ UNCHANGED <<file, overrides, discovered, graph, pc, ci, fi, directOwners, di,
                 ultimateOwners, warnings, stack, resolvedFunctions, resolvedContracts,
                 mtime, discoveredFunctionsCache, console, functionsFile, now>>

FactsSpec == FactsInit /\ [][generateDefidiscoClingoFacts]_vars

----------------------------------------------------------------------------
(* clingoPermissionResolution.ts: the Logic Solver's answer made into the
   resolved document *)

\* ModelIdRegistry.idToChainSpecificAddress on the ids formatAddress makes
idToChainSpecificAddress(id) ==
  CHOOSE address \in {AddrA, AddrB, AddrT, AddrM, AddrX, AddrALower, AddrBLower} :
    formatAddress(address) = id

ClingoFact(atom, params) == [atom |-> atom, params |-> params]

\* lines 162-185 for one element of the via list
ParseViaItem(viaFact, entries) ==
  IF viaFact.atom = "tuple" /\ Len(viaFact.params) >= 3
  THEN <<ViaStep(idToChainSpecificAddress(viaFact.params[1]),
                 getAddressType(idToChainSpecificAddress(viaFact.params[1]), entries),
                 viaFact.params[3])>>
  ELSE <<>>

\* lines 142-203
parseUltimatePermissionFact(fact, entries) ==
  LET giver == idToChainSpecificAddress(fact.params[3])
      via == Flatten([k \in 1..Len(fact.params[9]) |->
                        ParseViaItem(fact.params[9][k], entries)])
  IN [receiver |-> idToChainSpecificAddress(fact.params[1]),
      permissionType |-> fact.params[2],
      from |-> giver,
      addressType |-> getAddressType(giver, entries),
      originalDelay |-> fact.params[4],
      description |-> fact.params[5],
      role |-> fact.params[6],
      cumulativeDelay |-> fact.params[8],
      via |-> via,
      delays |-> Flatten([k \in 1..Len(via) |->
                            IF IsSome(via[k].delay) THEN via[k].delay ELSE <<>>])]

\* lines 87-94
ClingoUltimateOwner(parsed) ==
  [address |-> parsed.from, addressType |-> parsed.addressType, via |-> parsed.via,
   delays |-> parsed.delays, cumulativeDelay |-> parsed.cumulativeDelay,
   cumulativeDelayFormatted |-> formatDelay(parsed.cumulativeDelay)]

\* lines 104-125: the functions of one contract after one more fact
AddToFunctions(functions, parsed) ==
  LET found == FindIndex(functions, LAMBDA f : f.functionName = parsed.role)
      entries == IF found = 0
                 THEN Append(functions, [functionName |-> parsed.role, directOwners |-> <<>>,
                                         ultimateOwners |-> <<>>, warnings |-> <<>>])
                 ELSE functions
      k == IF found = 0 THEN Len(entries) ELSE found
  IN [entries EXCEPT
        ![k].directOwners =
           IF parsed.from \in Range(@) THEN @ ELSE Append(@, parsed.from),
        ![k].ultimateOwners = Append(@, ClingoUltimateOwner(parsed))]

\* lines 74-126
RECURSIVE GroupFacts(_, _)
GroupFacts(ultimatePermissionFacts, entries) ==
  IF ultimatePermissionFacts = <<>> THEN <<>>
  ELSE LET n == Len(ultimatePermissionFacts)
           contracts == GroupFacts(SubSeq(ultimatePermissionFacts, 1, n - 1), entries)
           parsed == parseUltimatePermissionFact(ultimatePermissionFacts[n], entries)
           c == FindIndex(contracts, LAMBDA x : x.address = parsed.receiver)
       IN IF c = 0
          THEN Append(contracts, [address |-> parsed.receiver,
                                  functions |-> AddToFunctions(<<>>, parsed)])
          ELSE [contracts EXCEPT ![c].functions = AddToFunctions(@, parsed)]

ViaTuple(id, permission, delay) == ClingoFact("tuple", <<id, permission, delay, "nil">>)

\* ultimatePermission(Receiver, OriginalPermission, Giver, OriginalDelay,
\* OriginalDescription, OriginalRole, OriginalCondition, TotalDelay, Via, isFinal)
UltimatePermissions ==
  {ClingoFact("ultimatePermission",
     <<formatAddress(AddrA), permission, formatAddress(AddrM), 0, "nil", role, "nil",
       totalDelay, via, "isFinal">>) :
     permission \in {"act", "admin"}, role \in {"f", "g"}, totalDelay \in {0, 60},
     via \in {<<>>, <<ViaTuple(formatAddress(AddrB), "act", 60)>>,
              <<ViaTuple(formatAddress(AddrB), "act", 0)>>}}

\* what the solver can answer: facts of one model, each once
SolverAnswers ==
  {s \in SeqsUpTo(UltimatePermissions, MaxFacts) :
     \A i, j \in 1..Len(s) : s[i] = s[j] => i = j}

ClingoInit == InitAt({AnyWorld}, "clingo")

\* lines 26-136: the whole run; ret holds the ultimatePermission facts of the
\* solver's answer
clingoResolvePermissionsForProject ==
  /\ pc = "clingo"
  /\ IF IsSome(ClingoFacts(file, overrides).error)
     THEN /\ pc' = "failed"
          /\ UNCHANGED <<ret, resolvedContracts>>
     ELSE /\ pc' = "done"
          /\ \E ultimatePermissionFacts \in SolverAnswers :
               /\ ret' = Some(ultimatePermissionFacts)
               /\ resolvedContracts' = GroupFacts(ultimatePermissionFacts, file.entries)
  /\ UNCHANGED <<file, overrides, discovered, graph, ci, fi, directOwners, di,
                 ultimateOwners, warnings, stack, resolvedFunctions,
                 mtime, discoveredFunctionsCache, console, functionsFile, now>>

ClingoSpec == ClingoInit /\ [][clingoResolvePermissionsForProject]_vars

----------------------------------------------------------------------------
(* formatDelay called on its own *)

\* delays of up to MaxDays days with the least, a middle and the greatest value
\* of each smaller component
FormatInputs ==
  {86400 * d + 3600 * h + 60 * m + w :
     d \in 0..MaxDays, h \in {0, 1, 23}, m \in {0, 1, 59}, w \in {0, 1, 59}}

FormatInit == InitAt({AnyWorld}, "format")

\* one call of formatDelay; ret holds its argument and result
FormatDelay ==
  /\ pc = "format"
  /\ \E seconds \in FormatInputs :
       ret' = Some([seconds |-> seconds, formatted |-> formatDelay(seconds)])
  /\ UNCHANGED <<file, overrides, discovered, graph, pc, ci, fi, directOwners, di,
                 ultimateOwners, warnings, stack, resolvedFunctions, resolvedContracts,
                 mtime, discoveredFunctionsCache, console, functionsFile, now>>

FormatSpec == FormatInit /\ [][FormatDelay]_vars

----------------------------------------------------------------------------
(* Vocabulary of the properties *)

Last(s) == s[Len(s)]

FunctionsOf(c) == {c.functions[k] : k \in 1..Len(c.functions)}

ResolvedFunctionSet ==
  UNION {FunctionsOf(resolvedContracts[c]) : c \in 1..Len(resolvedContracts)}
    \cup Range(resolvedFunctions)

\* every ultimate-owner record emitted so far, finished or being collected
EmittedRecords ==
  UNION {Range(R.ultimateOwners) : R \in ResolvedFunctionSet} \cup Range(ultimateOwners)

SnapshotAddresses == {discovered[k].address : k \in 1..Len(discovered)}

SnapshotType(a) ==
  IF a \in SnapshotAddresses
  THEN (CHOOSE e \in Range(discovered) : e.address = a).type
  ELSE "Unknown"

TerminalTypes == {"EOA", "Multisig", "Unknown"}

\* owner definitions the overrides document gives the permissioned functions of a
OwnerDefsOf(a) ==
  UNION {Range(Get(func.ownerDefinitions)) :
           func \in {func \in UNION {FunctionsOf(c) : c \in {c \in Range(Contracts) : c.address = a}} :
                       func.userClassification = "permissioned" /\ IsSome(func.ownerDefinitions)}}

ProducedBy(a, definition) ==
  LET r == resolvePathExpression(file.entries, a, definition.path) IN
  IF IsSome(r.error) THEN <<>> ELSE r.addresses

ResolvableOwners(a) == UNION {Range(ProducedBy(a, d)) : d \in OwnerDefsOf(a)}

\* every resolved function so far, with the address of its contract
ResolvedPairs ==
  UNION {{<<resolvedContracts[c].address, R>> : R \in FunctionsOf(resolvedContracts[c])} :
           c \in 1..Len(resolvedContracts)}
    \cup (IF resolvedFunctions = <<>> THEN {}
          ELSE {<<CurrentContract.address, R>> : R \in Range(resolvedFunctions)})

\* the override the resolved function called name of contract a was made from
OverrideOf(a, name) ==
  CHOOSE func \in UNION {FunctionsOf(c) : c \in {c \in Range(Contracts) : c.address = a}} :
    func.functionName = name

DefsOf(func) == IF IsSome(func.ownerDefinitions) THEN Get(func.ownerDefinitions) ELSE <<>>

PathFails(a, definition) ==
  IsSome(resolvePathExpression(file.entries, a, definition.path).error)

Placeholders == {"RESOLUTION_FAILED", "DISCOVERY_NOT_FOUND", "PARSE_ERROR"}

MaxOf(S) == CHOOSE m \in S : \A x \in S : x <= m

RECURSIVE SumSeq(_)
SumSeq(s) == IF s = <<>> THEN 0 ELSE Head(s) + SumSeq(Tail(s))

NoRepeat(s) == \A i, j \in 1..Len(s) : s[i] = s[j] => i = j

----------------------------------------------------------------------------
(* C1: every traceOwnerPath call started by resolvePermissionsForProject
   returns, and the recursion depth of every active call (the number of
   calls it is nested in, the first call being at depth 0) is at most the
   number of distinct addresses on its path, which is at most the number of
   entries of the snapshot. *)

PathAddresses(frame) == Range(ViaAddresses(frame.viaPath))

DepthBounded ==
  \A k \in 1..Len(stack) :
    /\ k - 1 <= Cardinality(PathAddresses(stack[k]))
    /\ Cardinality(PathAddresses(stack[k])) <= Len(discovered)

C1_TraceTerminatesWithinSnapshotDepth ==
  /\ []DepthBounded
  /\ (stack # <<>>) ~> (stack = <<>>)

\* a call nested in as many calls as the snapshot has entries has returned
C1_Witness ==
  /\ IsSome(ret)
  /\ Len(discovered) > 0
  /\ Len(Get(ret).viaPath) = Len(discovered)
  /\ NoRepeat(ViaAddresses(Get(ret).viaPath))

(* C2: a call entered with currentAddress in visited returns at once, with no
   ultimate-owner record and exactly one warning; the self-loop included. *)

EnteredOnCycle == AtEntry /\ Top.currentAddress \in Top.visited

C2_CycleCallReturnsOneWarning ==
  [][EnteredOnCycle =>
       /\ Len(stack') = Len(stack) - 1
       /\ IsSome(ret')
       /\ Get(ret').currentAddress = Top.currentAddress
       /\ Get(ret').result.ultimateOwners = <<>>
       /\ Len(Get(ret').result.warnings) = 1]_vars

\* the self-loop: A owns A, and the call on A inside the call on A has returned
C2_Witness ==
  /\ IsSome(ret)
  /\ Get(ret).visited = {Get(ret).currentAddress}
  /\ Len(Get(ret).result.warnings) = 1

(* C3: every emitted record is for an address of terminal type, or one the
   Ownership Graph has no owner entry for, or one whose owner definitions
   produce no address. *)

C3_RecordsOnlyWhereTraversalEnds ==
  \A U \in EmittedRecords :
    \/ SnapshotType(U.address) \in TerminalTypes
    \/ OwnerDefsOf(U.address) = {}
    \/ ResolvableOwners(U.address) = {}

\* a record for a contract whose owner definitions produce nothing
C3_Witness ==
  \E U \in EmittedRecords :
    /\ SnapshotType(U.address) \notin TerminalTypes
    /\ OwnerDefsOf(U.address) # {}
    /\ ResolvableOwners(U.address) = {}

(* C4: in every emitted record no address occurs twice in via, and the
   terminal address does not occur in via. *)

C4_ViaWithoutRepeats ==
  \A U \in EmittedRecords :
    /\ NoRepeat(ViaAddresses(U.via))
    /\ U.address \notin Range(ViaAddresses(U.via))

\* a record reached through two contracts, one of which also leads into a cycle
C4_Witness ==
  /\ \E U \in EmittedRecords : Len(U.via) = 2
  /\ warnings # <<>>

(* C5: the cumulative delay of every record is the sum of its delays. *)

C5_CumulativeDelayIsSum ==
  \A U \in EmittedRecords : U.cumulativeDelay = SumSeq(U.delays)

\* a record with two different step delays
C5_Witness ==
  \E U \in EmittedRecords : Len(U.delays) = 2 /\ U.delays[1] # U.delays[2]

(* C6: within one resolved function no two records share both the terminal
   address and the sequence of via addresses; of the collected records with
   one key the first is kept, and the kept records are in the order in which
   their keys first appear among the collected ones. *)

RecordKey(U) == <<U.address, ViaAddresses(U.via)>>

FirstOccurrences(s) ==
  LET keep == {n \in 1..Len(s) : \A k \in 1..(n - 1) : RecordKey(s[k]) # RecordKey(s[n])}
      nth[j \in 1..Cardinality(keep)] ==
        CHOOSE n \in keep : Cardinality({m \in keep : m < n}) = j - 1
  IN [j \in 1..Cardinality(keep) |-> s[nth[j]]]

\* the function whose collection has just been closed
FunctionClosed == pc = "function" /\ resolvedFunctions # <<>>

C6_FirstRecordPerKeyKept ==
  /\ \A p \in ResolvedPairs :
       \A i, j \in 1..Len(p[2].ultimateOwners) :
         RecordKey(p[2].ultimateOwners[i]) = RecordKey(p[2].ultimateOwners[j]) => i = j
  /\ FunctionClosed =>
       Last(resolvedFunctions).ultimateOwners = FirstOccurrences(ultimateOwners)

\* records were dropped, and two with the same terminal and different via are kept
C6_Witness ==
  /\ FunctionClosed
  /\ Len(Last(resolvedFunctions).ultimateOwners) < Len(ultimateOwners)
  /\ \E i, j \in 1..Len(Last(resolvedFunctions).ultimateOwners) :
       /\ i < j
       /\ Last(resolvedFunctions).ultimateOwners[i].address
            = Last(resolvedFunctions).ultimateOwners[j].address

(* C7: directOwners of every resolved function is the concatenation, in the
   order of its owner definitions, of the addresses of the definitions whose
   path evaluation succeeds, and holds no placeholder of a failed one. *)

ExpectedDirectOwners(a, func) ==
  Flatten([k \in 1..Len(DefsOf(func)) |-> ProducedBy(a, DefsOf(func)[k])])

C7_DirectOwnersAreSuccessfulDefinitions ==
  \A p \in ResolvedPairs :
    /\ p[2].directOwners = ExpectedDirectOwners(p[1], OverrideOf(p[1], p[2].functionName))
    /\ Range(p[2].directOwners) \cap Placeholders = {}

\* a function with a failed definition before a successful one
C7_Witness ==
  \E p \in ResolvedPairs :
    LET defs == DefsOf(OverrideOf(p[1], p[2].functionName)) IN
    /\ Len(defs) = 2
    /\ PathFails(p[1], defs[1])
    /\ ~PathFails(p[1], defs[2])
    /\ Len(p[2].directOwners) = 2

(* C8: when the path of an owner definition of a permissioned function fails,
   the warnings of the resolved function hold a warning for the failure, no
   direct owner comes from the definition, and the other definitions are
   resolved and traced. *)

IsCycleWarning(w) == Head(w) = "Cycle detected: "

FailedDefinitions(a, func) ==
  {k \in 1..Len(DefsOf(func)) : PathFails(a, DefsOf(func)[k])}

C8_FailedPathBecomesWarning ==
  \A p \in ResolvedPairs :
    LET func == OverrideOf(p[1], p[2].functionName) IN
    FailedDefinitions(p[1], func) # {} =>
      /\ Cardinality({k \in 1..Len(p[2].warnings) : ~IsCycleWarning(p[2].warnings[k])})
           >= Cardinality(FailedDefinitions(p[1], func))
      /\ p[2].directOwners = ExpectedDirectOwners(p[1], func)

(* C9: a record reached through one contract T, of whatever type, whose
   permissioned functions carry the delay reference (T, minDelay) and no
   other, the snapshot holding T.minDelay = number("86400"), has the via step
   of T with delay 86400, delays = [86400] and cumulative delay 86400. *)

\* delay references of the permissioned functions of a; withDefs keeps only
\* the functions that carry an ownerDefinitions list
DelayRefsOf(a, withDefs) ==
  UNION {Range(func.delay) :
           func \in {func \in UNION {FunctionsOf(c) : c \in {c \in Range(Contracts) : c.address = a}} :
                       /\ func.userClassification = "permissioned"
                       /\ withDefs => IsSome(func.ownerDefinitions)}}

SnapshotHolds(a, fieldName, value) ==
  \E e \in Range(discovered) :
    /\ e.address = a
    /\ \E k \in 1..Len(e.fields) : e.fields[k] = Field(fieldName, value)

OneDayThrough(U) ==
  /\ Len(U.via) = 1
  /\ DelayRefsOf(U.via[1].address, TRUE) = {DelayRef(U.via[1].address, "minDelay")}
  /\ DelayRefsOf(U.via[1].address, FALSE) = {DelayRef(U.via[1].address, "minDelay")}
  /\ SnapshotHolds(U.via[1].address, "minDelay", NumberFieldValue(Chars86400))

C9_DelayFoundWhateverTheType ==
  \A U \in EmittedRecords :
    OneDayThrough(U) =>
      /\ U.via[1].delay = Some(86400)
      /\ U.delays = <<86400>>
      /\ U.cumulativeDelay = 86400

(* C10: the delay of every via step is the greatest of zero and the values of
   the resolving delay references of the step's contract, the references
   being those of its permissioned functions that carry an ownerDefinitions
   list; references that do not resolve add nothing. *)

StepOf(step) == IF IsSome(step.delay) THEN Get(step.delay) ELSE 0

ResolvedSeconds(refs) ==
  {resolveDelayFromDiscovered(file, r).seconds :
     r \in {r \in refs : resolveDelayFromDiscovered(file, r).isResolved}}

ExpectedStepDelay(refs) == MaxOf({0} \cup ResolvedSeconds(refs))

DelayCalled == pc = "delay" /\ IsSome(ret)

\* the fields called fieldName of the entries with the address of the reference
ReferredValues(delayRef) ==
  IF file.status # "ok" THEN {}
  ELSE UNION {{e.fields[k].value :
                 k \in {k \in 1..Len(e.fields) : e.fields[k].name = delayRef.fieldName}} :
                e \in {e \in Range(file.entries) : e.address = delayRef.contractAddress}}

RECURSIVE DecimalValue(_)
DecimalValue(text) ==
  IF text = <<>> THEN 0
  ELSE 10 * DecimalValue(SubSeq(text, 1, Len(text) - 1)) + DigitValue(text[Len(text)])

IsDecimal(text) == text # <<>> /\ \A k \in 1..Len(text) : IsDigit(text[k])

C11_DelayResolvedOnlyWhenNonNegativeNumber ==
  DelayCalled =>
    LET r == Get(ret).resolvedDelay IN
    /\ r.isResolved =>
         /\ r.seconds >= 0
         /\ \E v \in ReferredValues(Get(ret).delayRef) :
              v.type = "number" /\ IsDecimal(v.value) /\ DecimalValue(v.value) = r.seconds
    /\ ~r.isResolved => r.seconds = 0

(* C12: no record has a via path that crosses an ownership edge all of whose
   owner definitions carry a permissionType other than act; a definition
   without permissionType counts as act. *)

\* the owner definitions of from that produce to
EdgeDefinitions(from, to) ==
  {d \in OwnerDefsOf(from) : to \in Range(ProducedBy(from, d))}

\* the address the k-th via step of U leads to
StepTarget(U, k) == IF k < Len(U.via) THEN U.via[k + 1].address ELSE U.address

Transits(d) == d.permissionType = None \/ d.permissionType = Some("act")

C12_OnlyActEdgesCrossed ==
  \A U \in EmittedRecords :
    \A k \in 1..Len(U.via) :
      \E d \in EdgeDefinitions(U.via[k].address, StepTarget(U, k)) : Transits(d)

(* C13: for two Contract-typed contracts A and B each owned by the other,
   the function of A whose direct owner is B gets exactly one warning, with
   the text "Cycle detected: B → A → B" (the via chain from the first
   occurrence of the repeated address, which is the direct owner B, ending
   with that address), and no ultimate owner. *)

\* the contract(s) of the overrides document with address a
ContractsAt(a) == SelectSeq(Contracts, LAMBDA c : c.address = a)

\* every owner address the permissioned functions of a produce, in document order
OwnerListOf(a) ==
  Flatten([c \in 1..Len(ContractsAt(a)) |->
    Flatten([k \in 1..Len(ContractsAt(a)[c].functions) |->
      IF ContractsAt(a)[c].functions[k].userClassification = "permissioned"
      THEN ExpectedDirectOwners(a, ContractsAt(a)[c].functions[k])
      ELSE <<>>])])

OwnEachOther(a, b) ==
  /\ a # b
  /\ SnapshotType(a) = "Contract" /\ SnapshotType(b) = "Contract"
  /\ OwnerListOf(a) = <<b>>
  /\ OwnerListOf(b) = <<a>>

CycleText(addresses) == <<"Cycle detected: ">> \o Join(addresses, " → ")

C13_TwoCycleWarnsFromDirectOwner ==
  \A p \in ResolvedPairs :
    \A b \in SnapshotAddresses :
      OwnEachOther(p[1], b) /\ p[2].directOwners = <<b>> =>
        /\ p[2].warnings = <<CycleText(<<b, p[1], b>>)>>
        /\ p[2].ultimateOwners = <<>>

\* the claim as it stands: the text begins with the contract of the function
C13_TwoCycleWarnsFromContract ==
  \A p \in ResolvedPairs :
    \A b \in SnapshotAddresses :
      OwnEachOther(p[1], b) /\ p[2].directOwners = <<b>> =>
        /\ p[2].warnings = <<CycleText(<<p[1], b, p[1]>>)>>
        /\ p[2].ultimateOwners = <<>>

\* the functions of both contracts of a two-cycle are resolved
C13_Witness ==
  /\ pc = "done"
  /\ \E p, q \in ResolvedPairs :
       /\ OwnEachOther(p[1], q[1])
       /\ p[2].directOwners = <<q[1]>>
       /\ q[2].directOwners = <<p[1]>>

(* C14: a call of traceOwnerPath on an address whose type is EOA, Multisig or
   Unknown returns at once exactly one record {current, type, via, delays}
   with the via and delays it was called with and no warning, whether or not
   the Ownership Graph has owner definitions for the address. *)

EnteredOnTerminal == AtEntry /\ SnapshotType(Top.currentAddress) \in TerminalTypes

C14_TerminalCallReturnsItself ==
  [][EnteredOnTerminal =>
       /\ Len(stack') = Len(stack) - 1
       /\ IsSome(ret')
       /\ Get(ret').currentAddress = Top.currentAddress
       /\ Get(ret').result =
            [ultimateOwners |->
               <<[address |-> Top.currentAddress,
                  addressType |-> SnapshotType(Top.currentAddress),
                  via |-> Top.viaPath, delays |-> Top.delays]>>,
             warnings |-> <<>>]]_vars

\* a Multisig that has resolvable owner definitions was reached through a
\* contract and has returned itself
C14_Witness ==
  /\ IsSome(ret)
  /\ SnapshotType(Get(ret).currentAddress) = "Multisig"
  /\ ResolvableOwners(Get(ret).currentAddress) # {}
  /\ Len(Get(ret).viaPath) > 0
  /\ Len(Get(ret).result.ultimateOwners) = 1

(* C15: the trace of a direct owner that has no entry in the snapshot adds to
   the function exactly one ultimate owner: that address, of type Unknown,
   with empty via, empty delays and cumulative delay 0, and no warning. *)

UnknownDirectOwnerCalled ==
  /\ Len(stack) = 1
  /\ AtEntry
  /\ Top.currentAddress = directOwners[di]
  /\ Top.currentAddress \notin SnapshotAddresses

C15_UnknownDirectOwnerIsTerminal ==
  [][UnknownDirectOwnerCalled =>
       /\ stack' = <<>>
       /\ warnings' = warnings
       /\ ultimateOwners' = Append(ultimateOwners,
            [address |-> directOwners[di], addressType |-> "Unknown",
             via |-> <<>>, delays |-> <<>>, cumulativeDelay |-> 0,
             cumulativeDelayFormatted |-> << <<0, "s">> >>])]_vars

\* the function with the unknown direct owner is resolved, the owner being
\* its only ultimate owner
C15_Witness ==
  /\ FunctionClosed
  /\ \E a \in Range(Last(resolvedFunctions).directOwners) : a \notin SnapshotAddresses
  /\ Len(Last(resolvedFunctions).ultimateOwners) = 1
  /\ Last(resolvedFunctions).ultimateOwners[1].addressType = "Unknown"
  /\ Last(resolvedFunctions).ultimateOwners[1].address \notin SnapshotAddresses

(* C16: every permissioned function whose ownerDefinitions list is empty or
   absent gets a resolved-function record, and the record has empty
   directOwners, empty ultimateOwners and no warnings. *)

PermissionedWithoutDefinitions(func) ==
  func.userClassification = "permissioned" /\ DefsOf(func) = <<>>

C16_NoDefinitionsGiveEmptyRecord ==
  /\ \A p \in ResolvedPairs :
       DefsOf(OverrideOf(p[1], p[2].functionName)) = <<>> =>
         /\ p[2].directOwners = <<>>
         /\ p[2].ultimateOwners = <<>>
         /\ p[2].warnings = <<>>
  /\ pc = "done" =>
       \A c \in Range(Contracts) :
         \A func \in FunctionsOf(c) :
           PermissionedWithoutDefinitions(func) =>
             \E p \in ResolvedPairs :
               p[1] = c.address /\ p[2].functionName = func.functionName

\* a record for a function with an absent list, in a run whose snapshot gives
\* the contract an owner field
C16_Witness ==
  /\ pc = "done"
  /\ \E p \in ResolvedPairs :
       /\ OverrideOf(p[1], p[2].functionName).ownerDefinitions = None
       /\ ~PathFails(p[1], OwnerDefinition(SelfOwner))

(* C17: the resolved document holds, in the order of the overrides document,
   the contracts that have a permissioned function, each with exactly one
   entry per permissioned function in order and none for another function;
   and an entry, once made, is neither removed nor changed by the resolution
   of the functions after it. *)

PermissionedNames(c) ==
  LET kept == SelectSeq(c.functions, LAMBDA func : func.userClassification = "permissioned")
  IN [k \in 1..Len(kept) |-> kept[k].functionName]

ExpectedLayout ==
  LET kept == SelectSeq(Contracts, LAMBDA c : PermissionedNames(c) # <<>>)
  IN [k \in 1..Len(kept) |-> [address |-> kept[k].address, names |-> PermissionedNames(kept[k])]]

ResolvedLayout ==
  [k \in 1..Len(resolvedContracts) |->
     [address |-> resolvedContracts[k].address,
      names |-> [j \in 1..Len(resolvedContracts[k].functions) |->
                   resolvedContracts[k].functions[j].functionName]]]

IsPrefix(s, t) == Len(s) <= Len(t) /\ SubSeq(t, 1, Len(s)) = s

EntriesKept ==
  /\ IsPrefix(resolvedContracts, resolvedContracts')
  /\ \/ IsPrefix(resolvedFunctions, resolvedFunctions')
     \/ /\ resolvedFunctions' = <<>>
        /\ resolvedFunctions # <<>> => Last(resolvedContracts').functions = resolvedFunctions

C17_OneEntryPerPermissionedFunction ==
  /\ [](pc = "done" => ResolvedLayout = ExpectedLayout)
  /\ [][EntriesKept]_vars

\* a finished run in which a function with a failed path and a cycle warning
\* has its entry, and a contract without permissioned function has none
C17_Witness ==
  /\ pc = "done"
  /\ Len(resolvedContracts) < Len(Contracts)
  /\ \E p \in ResolvedPairs :
       /\ FailedDefinitions(p[1], OverrideOf(p[1], p[2].functionName)) # {}
       /\ p[2].warnings # <<>>

(* C18: every owner resolution of a run uses the snapshot the run read at its
   start: the direct owners of every resolved function, and the owners every
   traced contract is expanded to, are those its owner definitions produce in
   that snapshot, also when discovered.json is rewritten during the run. *)

ProducedIn(entries, a, definition) ==
  LET r == resolvePathExpression(entries, a, definition.path) IN
  IF IsSome(r.error) THEN <<>> ELSE r.addresses

DirectOwnersIn(entries, a, func) ==
  Flatten([k \in 1..Len(DefsOf(func)) |-> ProducedIn(entries, a, DefsOf(func)[k])])

C18_RunUsesOneSnapshot ==
  /\ \A p \in ResolvedPairs :
       p[2].directOwners = DirectOwnersIn(discovered, p[1], OverrideOf(p[1], p[2].functionName))
  /\ \A k \in 1..Len(stack) :
       stack[k].at = "loop" =>
         \A a \in Range(stack[k].ownerAddresses) :
           \E d \in OwnerDefsOf(stack[k].currentAddress) :
             a \in Range(ProducedIn(discovered, stack[k].currentAddress, d))

(* C19: two address strings that differ only in the case of their hex letters
   are one address: every record has the type of the snapshot entry whose
   address is its own up to letter case, no via path holds an address twice
   up to letter case, nor its terminal, and no two records of a function
   have the same terminal and via addresses up to letter case. *)

\* the normalized lowercase form of the addresses of the model
Lowercase(a) ==
  CASE a = AddrA -> AddrALower
    [] a = AddrB -> AddrBLower
    [] OTHER -> a

NormalizedType(a) ==
  IF \E e \in Range(discovered) : Lowercase(e.address) = Lowercase(a)
  THEN (CHOOSE e \in Range(discovered) : Lowercase(e.address) = Lowercase(a)).type
  ELSE "Unknown"

NormalizedKey(U) ==
  <<Lowercase(U.address), [k \in 1..Len(U.via) |-> Lowercase(U.via[k].address)]>>

C19_AddressesEqualUpToCase ==
  /\ \A U \in EmittedRecords :
       /\ U.addressType = NormalizedType(U.address)
       /\ NoRepeat(NormalizedKey(U)[2] \o <<NormalizedKey(U)[1]>>)
  /\ \A p \in ResolvedPairs :
       \A i, j \in 1..Len(p[2].ultimateOwners) :
         NormalizedKey(p[2].ultimateOwners[i]) = NormalizedKey(p[2].ultimateOwners[j])
           => i = j

(* C20: the direct owners of a resolved function hold no address twice, and
   neither does the list of owners that a traceOwnerPath call recurses into
   for one contract. *)
C20_OwnerListsHoldNoAddressTwice ==
  /\ \A p \in ResolvedPairs : NoRepeat(p[2].directOwners)
  /\ \A k \in 1..Len(stack) :
       stack[k].at = "loop" => NoRepeat(stack[k].ownerAddresses)

(* C21: a call of loadDiscoveredFunctions that finds discovered.json and
   parses nothing returns the contracts of a cache entry whose modification
   time is the file's current one; a call that finds no such entry parses
   the file, returns what it parsed and stores it with the current
   modification time. *)

\* a step of loadDiscoveredFunctions
LoadCall == file' = file /\ mtime' = mtime /\ vars' # vars

Reparsed ==
  /\ console' = console \o <<ParsingMessage, CachedMessage>>
  /\ discoveredFunctionsCache' =
       Some([contracts |-> DiscoveredContracts(file.entries), mtime |-> mtime])
  /\ ret' = Some(DiscoveredContracts(file.entries))

CachedOnlyAtSameMtime ==
  (file.status # "missing" /\ console' = console)
    => /\ IsSome(discoveredFunctionsCache)
       /\ Get(discoveredFunctionsCache).mtime = mtime
       /\ ret' = Some(Get(discoveredFunctionsCache).contracts)
       /\ discoveredFunctionsCache' = discoveredFunctionsCache

StaleEntry ==
  ~IsSome(discoveredFunctionsCache) \/ Get(discoveredFunctionsCache).mtime # mtime

C21_ChangedMtimeReplacesCache ==
  [][LoadCall => CachedOnlyAtSameMtime /\ (StaleEntry => Reparsed)]_vars

(* C21 as amended: the re-parse replaces the cache entry when the file is
   present and well-formed; a call on a missing file, or on a malformed one
   without a current cache entry, returns no contracts and leaves the cache
   entry as it was. *)
C21_ChangedMtimeReplacesCacheOfReadableFile ==
  [][LoadCall =>
       /\ CachedOnlyAtSameMtime
       /\ (StaleEntry /\ file.status = "ok") => Reparsed
       /\ (file.status = "missing" \/ (StaleEntry /\ file.status = "malformed"))
            => ret' = Some(<<>>) /\ discoveredFunctionsCache' = discoveredFunctionsCache]_vars

\* the file was parsed twice and the second parse, taken at a later
\* modification time, is the cache entry and the result
C21_Witness ==
  /\ console = <<ParsingMessage, CachedMessage, ParsingMessage, CachedMessage>>
  /\ IsSome(discoveredFunctionsCache)
  /\ Get(discoveredFunctionsCache).mtime = mtime
  /\ mtime > 0
  /\ file.status = "ok"
  /\ Get(discoveredFunctionsCache).contracts = DiscoveredContracts(file.entries)
  /\ ret = Some(DiscoveredContracts(file.entries))
  /\ Len(DiscoveredContracts(file.entries)) = 2

(* C22: starting from a store in which every (contractAddress, functionName)
   pair is unique, every pair stays unique under updateFunction: a call for
   an existing pair leaves the function names of its contract as they were,
   in place, and a call for a new pair appends one entry of that name. *)

ContractAddresses(contracts) == [k \in 1..Len(contracts) |-> contracts[k].address]

\* the functions stored for address a, none when a has no entry
FunctionsAt(contracts, a) ==
  IF \E k \in 1..Len(contracts) : contracts[k].address = a
  THEN (CHOOSE c \in Range(contracts) : c.address = a).functions
  ELSE <<>>

FunctionNames(functions) == [j \in 1..Len(functions) |-> functions[j].functionName]

UniquePairs ==
  /\ NoRepeat(ContractAddresses(UserContracts(functionsFile)))
  /\ \A c \in Range(UserContracts(functionsFile)) : NoRepeat(FunctionNames(c.functions))

\* a step of updateFunction
UpdateCall == pc = "update" /\ now' = now + 1

ReplacedOrAppended ==
  LET request == Get(ret')
      before == FunctionNames(FunctionsAt(UserContracts(functionsFile), request.contractAddress))
      after == FunctionNames(FunctionsAt(functionsFile'.contracts, request.contractAddress))
  IN /\ request.functionName \in Range(before) => after = before
     /\ request.functionName \notin Range(before)
          => after = Append(before, request.functionName)
     /\ \A a \in {AddrA, AddrB} \ {request.contractAddress} :
          FunctionNames(FunctionsAt(functionsFile'.contracts, a))
            = FunctionNames(FunctionsAt(UserContracts(functionsFile), a))

C22_PairsStayUnique ==
  []UniquePairs /\ [][UpdateCall => ReplacedOrAppended]_vars

\* a contract whose first entry was written after its second: the second was
\* appended and the first then replaced in place
C22_Witness ==
  /\ UniquePairs
  /\ \E c \in Range(UserContracts(functionsFile)) :
       /\ Len(c.functions) = 2
       /\ c.functions[1].timestamp > c.functions[2].timestamp
       /\ c.functions[2].timestamp > 0

(* C30: updateFunction(C, F, request) leaves the entries of every other
   contract and of every other function of C as they were and where they
   were; in the entry (C, F) every field among checked, score, probability,
   reason, description, constraints, ownerDefinitions and delay that the
   request omits keeps the value it had, and the timestamp is the time of
   the call. *)

PositionOf(functions, n) == FindIndex(functions, LAMBDA func : func.functionName = n)

OnlyEntryChanged ==
  LET request == Get(ret')
      old == UserContracts(functionsFile)
      new == functionsFile'.contracts
      oldFunctions == FunctionsAt(old, request.contractAddress)
      newFunctions == FunctionsAt(new, request.contractAddress)
      j == PositionOf(oldFunctions, request.functionName)
      entry == newFunctions[PositionOf(newFunctions, request.functionName)]
  IN /\ \A k \in 1..Len(old) :
          /\ new[k].address = old[k].address
          /\ old[k].address # request.contractAddress => new[k] = old[k]
     /\ Len(new) <= Len(old) + 1
     /\ \A i \in 1..Len(oldFunctions) :
          oldFunctions[i].functionName # request.functionName
            => newFunctions[i] = oldFunctions[i]
     /\ \A field \in OptionalFields \cup {"delay"} :
          request[field] = None
            => entry[field] = (IF j > 0 THEN oldFunctions[j][field] ELSE None)
     /\ entry.timestamp = now

C30_UpdateChangesOneEntry == [][UpdateCall => OnlyEntryChanged]_vars

\* the latest call omitted reason and delay for an entry that had them, in a
\* store with another function of the contract and another contract
C30_Witness ==
  /\ IsSome(ret)
  /\ Get(ret).reason = None /\ Get(ret).delay = None
  /\ Len(UserContracts(functionsFile)) = 2
  /\ LET functions == FunctionsAt(UserContracts(functionsFile), Get(ret).contractAddress)
         j == PositionOf(functions, Get(ret).functionName)
     IN /\ Len(functions) = 2
        /\ j > 0
        /\ functions[j].timestamp = now - 1
        /\ functions[j].reason = Some("onlyOwner")
        /\ functions[j].delay = Some(DelayRef(AddrB, "minDelay"))

(* C23: in the facts of generateDefidiscoClingoFacts an owner whose
   definition has no permissionType has type act when the snapshot types it
   EOA, EOAPermissioned or Multisig and admin otherwise, also when the
   snapshot does not hold it; an owner whose definition has a permissionType
   has that type. *)

FactsReturned == pc = "facts" /\ IsSome(ret) /\ Get(ret).error = None

\* the permission facts returned, in order
PermissionFacts ==
  SelectSeq(Get(ret).facts, LAMBDA fact : fact.predicate = "permission")

\* the resolved owners the facts are generated for, in order
OwnersOfFunction(contractAddress, func) ==
  IF func.userClassification = "permissioned" /\ IsSome(func.ownerDefinitions)
  THEN SelectSeq(resolveOwnersFromDiscovered(file, contractAddress, Get(func.ownerDefinitions)),
                 LAMBDA owner : owner.isResolved)
  ELSE <<>>

FactOwners ==
  Flatten([c \in 1..Len(Contracts) |->
    Flatten([j \in 1..Len(Contracts[c].functions) |->
      OwnersOfFunction(Contracts[c].address, Contracts[c].functions[j])])])

TypeInFile(a) ==
  IF \E e \in Range(file.entries) : e.address = a
  THEN file.entries[FindEntry(file.entries, a)].type
  ELSE "absent"

InferredType(a) ==
  IF TypeInFile(a) \in {"EOA", "EOAPermissioned", "Multisig"} THEN "act" ELSE "admin"

C23_DefaultTypeInferredFromAddressType ==
  FactsReturned =>
    /\ Len(PermissionFacts) = Len(FactOwners)
    /\ \A k \in 1..Len(FactOwners) :
         /\ PermissionFacts[k].args[3] = formatAddress(FactOwners[k].address)
         /\ FactOwners[k].source.permissionType = None
              => PermissionFacts[k].args[2] = InferredType(FactOwners[k].address)
         /\ IsSome(FactOwners[k].source.permissionType)
              => PermissionFacts[k].args[2] = Get(FactOwners[k].source.permissionType)

(* C29: every permission fact carries the permission type of owner.source,
   the definition whose path produced its owner: the explicit type when that
   definition has one, and an inferred act or admin only when it has none. *)
TypesCarriedFor(definition) ==
  IF IsSome(definition.permissionType) THEN {Get(definition.permissionType)}
  ELSE {"act", "admin"}

C29_FactTypeComesFromOwnerSource ==
  FactsReturned =>
    \A k \in 1..Len(FactOwners) :
      k <= Len(PermissionFacts)
        /\ PermissionFacts[k].args[2] \in TypesCarriedFor(FactOwners[k].source)

(* C24: in the document made from the solver's answer no two ultimateOwners
   records of one function have the same terminal address and the same
   sequence of via addresses, and of the records the facts of a function
   give, the first of each such key is the one kept. *)

ClingoDone == pc = "done" /\ IsSome(ret)

\* the records the facts for function name of contract a give, in fact order
RecordsOfFacts(a, name) ==
  LET parsed == [k \in 1..Len(Get(ret)) |->
                   parseUltimatePermissionFact(Get(ret)[k], file.entries)]
  IN Flatten([k \in 1..Len(parsed) |->
       IF parsed[k].receiver = a /\ parsed[k].role = name
       THEN <<ClingoUltimateOwner(parsed[k])>> ELSE <<>>])

C24_SolverRecordsDeduplicated ==
  ClingoDone =>
    \A p \in ResolvedPairs :
      /\ \A i, j \in 1..Len(p[2].ultimateOwners) :
           RecordKey(p[2].ultimateOwners[i]) = RecordKey(p[2].ultimateOwners[j]) => i = j
      /\ p[2].ultimateOwners = FirstOccurrences(RecordsOfFacts(p[1], p[2].functionName))

(* C25: cycle detection is per path.  The records of a function are exactly
   the paths from its direct owners to an address where the traversal ends,
   a path being cut only where it would pass through one of its own
   addresses again: in a diamond both paths to the common owner give a
   record, and a cycle on one branch takes nothing from the other
   branches.  A call returns a cycle warning only for an address that lies
   on its own via path. *)

\* the traversal ends at a: C3
EndsAt(a) ==
  \/ SnapshotType(a) \in TerminalTypes
  \/ OwnerDefsOf(a) = {}
  \/ ResolvableOwners(a) = {}

\* the keys <<terminal, via addresses>> of the paths that continue path at current
RECURSIVE PathsFrom(_, _)
PathsFrom(current, path) ==
  IF current \in Range(path) THEN {}
  ELSE IF EndsAt(current) THEN {<<current, path>>}
  ELSE UNION {PathsFrom(OwnerListOf(current)[k], Append(path, current)) :
                k \in 1..Len(OwnerListOf(current))}

C25_RecordsAreThePathsOfEachBranch ==
  /\ FunctionClosed =>
       {RecordKey(U) : U \in Range(Last(resolvedFunctions).ultimateOwners)}
         = UNION {PathsFrom(d, <<>>) : d \in Range(Last(resolvedFunctions).directOwners)}
  /\ EnteredOnCycle => Top.currentAddress \in PathAddresses(Top)

\* a diamond below the direct owner, with a cycle on one of its branches: the
\* common owner is recorded once through each branch, next to a warning
C25_Witness ==
  /\ FunctionClosed
  /\ Last(resolvedFunctions).warnings # <<>>
  /\ \E U, V \in Range(Last(resolvedFunctions).ultimateOwners) :
       /\ U.address = V.address
       /\ ViaAddresses(U.via) = <<AddrA, AddrB>>
       /\ ViaAddresses(V.via) = <<AddrA, AddrT>>

(* C26: formatDelay(0) is "0s"; for s > 0 the result is the non-zero ones of
   the components Xd, Yh, Zm, Ws in that order, with Y < 24, Z < 60, W < 60
   and 86400*X + 3600*Y + 60*Z + W = s. *)

Formatted == pc = "format" /\ IsSome(ret)

UnitOrder == <<"d", "h", "m", "s">>
UnitSeconds(u) == CASE u = "d" -> 86400 [] u = "h" -> 3600 [] u = "m" -> 60 [] u = "s" -> 1
UnitLimit(u) == IF u = "h" THEN 24 ELSE 60

RankOf(u) == CHOOSE k \in 1..4 : UnitOrder[k] = u

C26_FormatDelayComponents ==
  Formatted =>
    LET s == Get(ret).seconds
        parts == Get(ret).formatted
    IN IF s = 0 THEN parts = << <<0, "s">> >>
       ELSE /\ \A k \in 1..Len(parts) :
                 /\ parts[k][2] \in Range(UnitOrder)
                 /\ parts[k][1] > 0
                 /\ parts[k][2] # "d" => parts[k][1] < UnitLimit(parts[k][2])
            /\ \A j, k \in 1..Len(parts) : j < k => RankOf(parts[j][2]) < RankOf(parts[k][2])
            /\ SumSeq([k \in 1..Len(parts) |-> parts[k][1] * UnitSeconds(parts[k][2])]) = s

\* the example of the claim, 86400 giving "1d"
C26_Witness ==
  Formatted /\ Get(ret) = [seconds |-> 86400, formatted |-> << <<1, "d">> >>]

(* C27: in every call of traceOwnerPath made in a run of
   resolvePermissionsForProject, visited is the set of the addresses of the
   viaPath steps; so a call that finds its address in visited finds it in
   viaPath, and no warning has the text "<address> (cycle detected)". *)

IsFallbackWarning(w) == Last(w) = " (cycle detected)"

WarningsSoFar ==
  Range(warnings)
    \cup UNION {Range(R.warnings) : R \in ResolvedFunctionSet}
    \cup UNION {Range(stack[k].allWarnings) : k \in 1..Len(stack)}
    \cup (IF pc = "owners" /\ IsSome(ret) THEN Range(Get(ret).result.warnings) ELSE {})

C27_VisitedIsTheViaPath ==
  /\ \A k \in 1..Len(stack) : stack[k].visited = PathAddresses(stack[k])
  /\ EnteredOnCycle
       => FindIndex(Top.viaPath, LAMBDA step : step.address = Top.currentAddress) > 0
  /\ \A w \in WarningsSoFar : ~IsFallbackWarning(w)

\* a call two calls deep has found its address in visited and returned the
\* warning that spells the cycle out
C27_Witness ==
  /\ pc = "owners" /\ IsSome(ret)
  /\ Len(Get(ret).viaPath) >= 2
  /\ Get(ret).currentAddress \in Get(ret).visited
  /\ Get(ret).visited = Range(ViaAddresses(Get(ret).viaPath))
  /\ Get(ret).result.warnings # <<>>
  /\ \A w \in Range(Get(ret).result.warnings) : ~IsFallbackWarning(w)

(* C28: in every emitted record delays is, in path order, the delays of the
   via steps that carry one; every element of delays is positive; a via step
   carries a delay exactly when the step delay of its contract is positive;
   cumulativeDelay is the sum of the via-step delays and is not negative. *)

ViaDelays(via) == Flatten([k \in 1..Len(via) |-> via[k].delay])

C28_DelaysAreTheViaStepDelays ==
  \A U \in EmittedRecords :
    /\ U.delays = ViaDelays(U.via)
    /\ \A k \in 1..Len(U.delays) : U.delays[k] > 0
    /\ \A k \in 1..Len(U.via) :
         /\ IsSome(U.via[k].delay)
              <=> ExpectedStepDelay(DelayRefsOf(U.via[k].address, TRUE)) > 0
         /\ IsSome(U.via[k].delay) <=> IsSome(U.via[k].delayFormatted)
    /\ U.cumulativeDelay = SumSeq(ViaDelays(U.via))
    /\ U.cumulativeDelay >= 0

\* a record with a step that carries a delay and a step that carries none
C28_Witness ==
  \E U \in EmittedRecords :
    /\ \E j, k \in 1..Len(U.via) : IsSome(U.via[j].delay) /\ ~IsSome(U.via[k].delay)
    /\ U.delays # <<>>
    /\ Len(U.delays) < Len(U.via)
    /\ U.cumulativeDelay > 0

====
